---------------------------- MODULE Spec2Model ----------------------------
(***************************************************************************)
(* A model of the GitLab integration of bots/pc_server/tools/gitlab: the   *)
(* read-only API client, the two-tier cache manager, the documentation     *)
(* indexer and the search engine.                                          *)
(*                                                                         *)
(* Python strings are sequences of one-character strings, so that          *)
(* startswith, "in", lower(), quote(), splitext() and the regular          *)
(* expressions of the code are computed character by character.            *)
(***************************************************************************)
EXTENDS Integers, Sequences, FiniteSets, TLC

\* The fields of the records of this model, in the one order in which every
\* record below lists them.
Fields ==
    [_doc_cache |-> "the cache manager's documentation indexes",
     _doc_cache_time |-> "the time of the documentation cache",
     _repo_cache |-> "the cache manager's repository list",
     _repo_cache_time |-> "the time of the repository cache",
     all_repos |-> "get_all_repositories: the repositories collected so far",
     answer |-> "the network's answer to a request: ok, http, timeout, connection",
     args |-> "the arguments of a call",
     best_file |-> "a DocIndex's best file",
     body |-> "the shape of the body of a call's response: object, array, unparsable, text",
     cache |-> "the documentation cache file's indexes",
     cache_used |-> "whether gitlab_list_repos has answered from the cache",
     cached_at |-> "when a DocFile was fetched",
     calls |-> "the calls of the client made by an index_repository",
     content |-> "a DocFile's text",
     count |-> "the number of results of a search",
     description |-> "a repository's description",
     directories |-> "the directory entries of a listing",
     doc_file |-> "the documentation cache file",
     doc_type |-> "a DocType member",
     doc_types_found |-> "a SearchResult's documentation types",
     done |-> "get_all_repositories: the loop has been left",
     endpoint |-> "the endpoint given to get()",
     engine |-> "the calls of search_repositories made by the search_repos tool",
     error |-> "the message of a failed search",
     errors |-> "index_repositories: repositories whose indexing raised",
     exc |-> "the exception raised",
     fault |-> "a server's answer to the request of its faulty page",
     fault_page |-> "the number of a server's faulty page, 0 if it has none",
     file_path |-> "a file's path in its repository",
     files |-> "the file entries of a listing",
     force_refresh |-> "index_repository's flag",
     get_file_content |-> "the client operation",
     get_repository |-> "the client operation",
     header |-> "the X-Total-Pages header of a server's responses",
     id |-> "a repository's id",
     index |-> "a DocIndex",
     indexed |-> "index_repositories: repositories indexed",
     indexing |-> "the batch indexing that a search has run: at most one",
     items |-> "the entries of a list",
     kind |-> "how a call ends: return or raise; for get(): response or the exception",
     list_directory |-> "the client operation",
     listing |-> "the answer of the network to the request for the tree",
     malformed |-> "the first entry of a server's first page is not a JSON object",
     manager |-> "the cache manager: its caches and its files",
     method |-> "the method of a search",
     name |-> "a tree entry's name",
     net |-> "the network's answer to the call's request",
     network |-> "the answers of the network to the requests of an index_repository",
     op |-> "the operation called",
     outcome |-> "what the call handed to its caller",
     page |-> "get_all_repositories: the number of the page to request",
     params |-> "the request parameters",
     path |-> "a path",
     path_namespace |-> "a result's repository path",
     path_with_namespace |-> "a project's path",
     patterns |-> "the regular expressions of a DocType",
     processed |-> "index_repositories: repositories gone through",
     progress |-> "index_repositories: the calls of the progress callback, each (current, total)",
     progress_callback |-> "index_repositories: a progress callback is passed",
     project_path |-> "a repository's path with namespace",
     query |-> "the query of a search",
     recursive |-> "list_tree's flag",
     ref |-> "a git reference",
     repo |-> "a candidate's repository",
     repo_file |-> "the repository cache file",
     repo_path |-> "a DocIndex's repository",
     repositories |-> "the repository cache file's list",
     repository |-> "a SearchResult's repository",
     requests |-> "get_all_repositories: the requests made so far",
     results |-> "what search() returned",
     score |-> "a score",
     sec |-> "the security validation of the call's request failed",
     sent |-> "the requests put on the network",
     server |-> "the GitLab instance that answers get_all_repositories",
     size |-> "a DocFile's size",
     sizes |-> "the number of entries of each page a server holds",
     skipped |-> "index_repositories: repositories without documentation",
     stats |-> "what index_repositories returns",
     status |-> "an HTTP status",
     steps |-> "index_repositories: the calls of index_repository and of save, in their order",
     success |-> "the search has not raised",
     sv |-> "the server that a call of a tool meets",
     tag |-> "the Python type of a value",
     text |-> "a str value",
     timestamp |-> "a cache file's time of writing",
     top_k |-> "the number of results asked for",
     total_files |-> "index_repositories: files indexed",
     type |-> "a tree entry's type: blob or tree",
     url |-> "the resolved URL",
     value |-> "the value returned",
     version |-> "a cache file's format version",
     warm_cache |-> "search's flag"]

VARIABLES
    call,     \* client: the last operation called: its inputs, the network's answer, its outcome
    last404,  \* client: per operation, the outcome of its most recent call answered by a 404
    server,   \* paging: the GitLab instance a running get_all_repositories talks to
    loop,     \* paging: the locals of the running get_all_repositories
    now,      \* cache: datetime.now().timestamp()
    repo_file,         \* cache: the file repositories_cache.json
    doc_file,          \* cache: the file documentation_cache.json
    _repo_cache,       \* cache: the manager's list of repositories, or None
    _repo_cache_time,  \* cache: the time of that list
    _doc_cache,        \* cache: the manager's dict of DocIndex by repository path
    _doc_cache_time,   \* cache: the time of that dict
    last_set,          \* cache: the argument and time of the last set_repositories, of this
                       \* manager (set) or of the one before it (loaded)
    reply,             \* cache: the outcome of the last call of the manager
    tree,     \* indexer: the tree of each repository on the server
    indexed,  \* indexer: the last index_repository: its arguments, its calls of the client, its outcome
    searched, \* search: the last search_repositories: its arguments, its calls, its outcome
    peer      \* cache: the caches of a second manager over the same cache directory, if any

clientVars == <<call, last404>>
pagingVars == <<server, loop>>
diskVars == <<repo_file, doc_file>>
memoryVars == <<_repo_cache, _repo_cache_time, _doc_cache, _doc_cache_time>>
cacheVars == <<now, diskVars, memoryVars, last_set, reply>>

indexerVars == <<tree, indexed>>
searchVars == <<searched>>
peerVars == <<peer>>

vars == <<clientVars, pagingVars, cacheVars, indexerVars, searchVars, peerVars>>
nonClientVars == <<pagingVars, cacheVars, indexerVars, searchVars, peerVars>>
nonPagingVars == <<clientVars, cacheVars, indexerVars, searchVars, peerVars>>
nonCacheVars == <<clientVars, pagingVars, indexerVars, searchVars, peerVars>>

(***************************************************************************)
(* Strings                                                                 *)
(***************************************************************************)
UPPER == <<"A", "B", "C", "D", "E", "F", "G", "H", "I", "J", "K", "L", "M", "N", "O", "P", "Q", "R", "S", "T", "U", "V", "W", "X", "Y", "Z">>
LOWER == <<"a", "b", "c", "d", "e", "f", "g", "h", "i", "j", "k", "l", "m", "n", "o", "p", "q", "r", "s", "t", "u", "v", "w", "x", "y", "z">>
\* The printable ASCII characters in code order, from 32 (space) to 126 (~);
\* "<grave>" stands for the grave accent, character 96.
ASCII32 == <<" ", "!", "\"", "#", "$", "%", "&", "'", "(", ")", "*", "+", ",", "-", ".", "/", "0", "1", "2", "3", "4", "5", "6", "7", "8", "9", ":", ";", "<", "=", ">", "?", "@", "A", "B", "C", "D", "E", "F", "G", "H", "I", "J", "K", "L", "M", "N", "O", "P", "Q", "R", "S", "T", "U", "V", "W", "X", "Y", "Z", "[", "\\", "]", "^", "_", "<grave>", "a", "b", "c", "d", "e", "f", "g", "h", "i", "j", "k", "l", "m", "n", "o", "p", "q", "r", "s", "t", "u", "v", "w", "x", "y", "z", "{", "|", "}", "~">>
HEXDIGITS == <<"0", "1", "2", "3", "4", "5", "6", "7", "8", "9", "A", "B", "C", "D", "E", "F">>
\* urllib.parse.quote never quotes letters, digits and "_.-~".
UNRESERVED == <<"A", "B", "C", "D", "E", "F", "G", "H", "I", "J", "K", "L", "M", "N", "O", "P", "Q", "R", "S", "T", "U", "V", "W", "X", "Y", "Z", "a", "b", "c", "d", "e", "f", "g", "h", "i", "j", "k", "l", "m", "n", "o", "p", "q", "r", "s", "t", "u", "v", "w", "x", "y", "z", "0", "1", "2", "3", "4", "5", "6", "7", "8", "9", "_", ".", "-", "~">>

Range(s) == {s[i] : i \in 1..Len(s)}

IndexOf(c, s) == CHOOSE i \in 1..Len(s) : s[i] = c

UpperChars == Range(UPPER)
UnreservedChars == Range(UNRESERVED)
AsciiChars == Range(ASCII32)

\* the lower-case letter of each upper-case letter
LowerOf == [c \in UpperChars |-> LOWER[IndexOf(c, UPPER)]]

\* str.lower() on one character
LowerChar(c) == IF c \in UpperChars THEN LowerOf[c] ELSE c

\* str.lower()
RECURSIVE Lower(_)
Lower(s) == IF s = <<>> THEN <<>> ELSE <<LowerChar(Head(s))>> \o Lower(Tail(s))

\* s[i:i+len(p)] == p, for a 1-based i
MatchAt(p, s, i) ==
    /\ i >= 1
    /\ i + Len(p) - 1 <= Len(s)
    /\ \A k \in 1..Len(p) : s[i + k - 1] = p[k]

\* str.startswith
StartsWith(s, p) == MatchAt(p, s, 1)

\* the Python test "p in s" on two strings
IsSubstr(p, s) == \E i \in 1..(Len(s) + 1) : MatchAt(p, s, i)

\* str.lstrip("/")
RECURSIVE LStripSlash(_)
LStripSlash(s) == IF s # <<>> /\ s[1] = "/" THEN LStripSlash(Tail(s)) ELSE s

\* urllib.parse.quote(c, safe="") on one ASCII character: %XX, upper-case hex
QuoteChar(c) ==
    IF c \in UnreservedChars THEN <<c>>
    ELSE LET code == 31 + IndexOf(c, ASCII32)
         IN  <<"%", HEXDIGITS[(code \div 16) + 1], HEXDIGITS[(code % 16) + 1]>>

\* urllib.parse.quote(s, safe="")
RECURSIVE Quote(_)
Quote(s) == IF s = <<>> THEN <<>> ELSE QuoteChar(Head(s)) \o Quote(Tail(s))

(***************************************************************************)
(* GitLabClient (client.py)                                                *)
(***************************************************************************)
\* self.base_url, after rstrip("/"): the configured GitLab instance
base_url == <<"h", "t", "t", "p", ":", "/", "/", "g">>
api_version == <<"v", "4">>

FORBIDDEN_PARAMS == {<<"c", "o", "n", "t", "e", "n", "t">>, <<"m", "e", "s", "s", "a", "g", "e">>, <<"r", "e", "f", "_", "n", "a", "m", "e">>, <<"f", "i", "l", "e", "_", "n", "a", "m", "e">>, <<"b", "r", "a", "n", "c", "h", "_", "n", "a", "m", "e">>}

\* The answers of the network to one request: a 2xx response, an HTTP error
\* status (raise_for_status), a timeout, a connection error.
HttpErrorStatuses == {404, 403, 500}
NetAnswers ==
    {[answer |-> "ok"], [answer |-> "timeout"], [answer |-> "connection"]}
        \cup {[answer |-> "http", status |-> s] : s \in HttpErrorStatuses}

\* A request parameter dict is a function from its keys; None and {} are <<>>.
NoParams == <<>>

\* get(): the full URL of an endpoint
ResolveUrl(endpoint) ==
    IF StartsWith(endpoint, <<"h", "t", "t", "p">>)
    THEN endpoint
    ELSE base_url \o <<"/", "a", "p", "i", "/">> \o api_version \o <<"/">> \o LStripSlash(endpoint)

\* _validate_url passes (does not raise)
_validate_url(url) == StartsWith(url, base_url)

\* _validate_params without the test of the parameter names
_validate_params_url_only(url, params) ==
    LET url_lower == Lower(url)
    IN  \A param \in FORBIDDEN_PARAMS : ~IsSubstr(param, url_lower)

\* _validate_params passes (does not raise)
_validate_params(url, params) ==
    /\ LET url_lower == Lower(url)
       IN  \A param \in FORBIDDEN_PARAMS : ~IsSubstr(param, url_lower)
    /\ (DOMAIN params # {}) => \A param \in FORBIDDEN_PARAMS : param \notin DOMAIN params

\* get(endpoint, params) when the network answers net: what it returns or
\* raises, and the requests it has put on the network.
get(endpoint, params, net) ==
    LET url == ResolveUrl(endpoint)
    IN  IF ~_validate_url(url) \/ ~_validate_params(url, params)
        THEN [kind |-> "SecurityError", sent |-> <<>>]
        ELSE LET req == <<[params |-> params, url |-> url]>>
             IN  CASE net.answer = "ok" -> [kind |-> "response", sent |-> req]
                   [] net.answer = "http" -> [kind |-> "HTTPError", sent |-> req, status |-> net.status]
                   [] OTHER -> [kind |-> "RequestException", sent |-> req]

\* What an operation hands to its caller
Return(v) == [kind |-> "return", value |-> v]
Raise(e) == [exc |-> e, kind |-> "raise"]
NoneVal == [tag |-> "None"]

\* What response.json() gives: a JSON object, a JSON array, or a ValueError
\* (the body is not JSON).
JsonShapes == {"object", "array", "unparsable"}

\* get_all_repositories asks for pages of this many entries
per_page == 100

\* The entries of page p of the server's project list. Entries are numbered
\* across the pages; entry 0 stands for an entry that is not a JSON object,
\* which Repository.from_gitlab_api cannot read. A page the server does not
\* hold is the empty array.
PageEntries(sv, p) ==
    IF p > Len(sv.sizes) THEN <<>>
    ELSE [i \in 1..sv.sizes[p] |->
             IF sv.malformed /\ p = 1 /\ i = 1 THEN 0 ELSE (p - 1) * per_page + i]

\* The inner loop: the entries that parse, in order
RECURSIVE ParseEntries(_)
ParseEntries(repos_data) ==
    IF repos_data = <<>> THEN <<>>
    ELSE (IF Head(repos_data) = 0 THEN <<>> ELSE <<Head(repos_data)>>)
             \o ParseEntries(Tail(repos_data))

PageParams(page) ==
    [k \in {<<"p", "a", "g", "e">>, <<"p", "e", "r", "_", "p", "a", "g", "e">>, <<"s", "i", "m", "p", "l", "e">>} |->
        IF k = <<"p", "a", "g", "e">> THEN page ELSE IF k = <<"p", "e", "r", "_", "p", "a", "g", "e">> THEN per_page ELSE TRUE]

\* get_all_repositories before its loop
LoopStart == [all_repos |-> <<>>, done |-> FALSE, page |-> 1, requests |-> <<>>, sec |-> FALSE]

\* One iteration of the loop of get_all_repositories, from the loop's state st
FetchPage(sv, st) ==
    LET faulty == sv.fault_page = st.page
        net == IF faulty /\ sv.fault.answer # "unparsable" THEN sv.fault
               ELSE [answer |-> "ok"]
        r == get(<<"p", "r", "o", "j", "e", "c", "t", "s">>, PageParams(st.page), net)
        requests == st.requests \o r.sent
        repos_data == PageEntries(sv, st.page)
        all_repos == st.all_repos \o ParseEntries(repos_data)
        Break(repos) == [all_repos |-> repos, done |-> TRUE, page |-> st.page,
                         requests |-> requests, sec |-> r.kind = "SecurityError"]
    IN  IF r.kind # "response" \/ faulty THEN Break(st.all_repos)
        ELSE IF repos_data = <<>> THEN Break(st.all_repos)
        ELSE IF sv.header.tag = "text" THEN Break(all_repos)
        ELSE LET total_pages == IF sv.header.tag = "absent" THEN st.page
                                ELSE sv.header.value
             IN  IF st.page >= total_pages \/ Len(repos_data) < per_page
                 THEN Break(all_repos)
                 ELSE [all_repos |-> all_repos, done |-> FALSE, page |-> st.page + 1,
                       requests |-> requests, sec |-> FALSE]

RECURSIVE RunLoop(_, _)
RunLoop(sv, st) == IF st.done THEN st ELSE RunLoop(sv, FetchPage(sv, st))

\* get_all_repositories() against server sv
get_all_repositories(sv) ==
    LET st == RunLoop(sv, LoopStart)
    IN  [outcome |-> Return([items |-> st.all_repos, tag |-> "list"]),
         sec |-> st.sec,
         sent |-> st.requests]

\* get_repository with every HTTP error status absorbed
get_repository_absorbing(project_path, net, json) ==
    LET r == get(<<"p", "r", "o", "j", "e", "c", "t", "s", "/">> \o Quote(project_path), NoParams, net)
    IN  [outcome |-> IF r.kind = "response" /\ json = "object"
                     THEN Return([path |-> project_path, tag |-> "Repository"])
                     ELSE Return(NoneVal),
         sec |-> r.kind = "SecurityError",
         sent |-> r.sent]

\* get_repository(project_path): the network answers net, the body has shape json
get_repository(project_path, net, json) ==
    LET r == get(<<"p", "r", "o", "j", "e", "c", "t", "s", "/">> \o Quote(project_path), NoParams, net)
    IN  [outcome |-> CASE r.kind = "HTTPError" ->
                        IF r.status = 404 THEN Return(NoneVal) ELSE Raise("HTTPError")
                   [] r.kind = "response" /\ json = "object" ->
                        Return([path |-> project_path, tag |-> "Repository"])
                   [] OTHER -> Return(NoneVal),
         sec |-> r.kind = "SecurityError",
         sent |-> r.sent]

\* The entries of a tree response used here: a blob and a directory
TreeItems == {[name |-> <<"a", ".", "m", "d">>, path |-> <<"d", "o", "c", "s", "/", "a", ".", "m", "d">>, type |-> "blob"],
              [name |-> <<"d", "o", "c", "s">>, path |-> <<"d", "o", "c", "s">>, type |-> "tree"]}

EmptyListing == [directories |-> <<>>, files |-> <<>>, tag |-> "dict"]

Entry(item) == [name |-> item.name, path |-> item.path, type |-> item.type]

RECURSIVE Partition(_, _)
Partition(items, acc) ==
    IF items = <<>> THEN acc
    ELSE LET item == Head(items)
         IN  Partition(Tail(items),
                 IF item.type = "tree"
                 THEN [acc EXCEPT !.directories = Append(@, Entry(item))]
                 ELSE [acc EXCEPT !.files = Append(@, Entry(item))])

\* list_directory(project_path, path, ref): items is the JSON array of the body
list_directory(project_path, path, ref, net, json, items) ==
    LET r == get(<<"p", "r", "o", "j", "e", "c", "t", "s", "/">> \o Quote(project_path) \o <<"/", "r", "e", "p", "o", "s", "i", "t", "o", "r", "y", "/", "t", "r", "e", "e">>,
                 [k \in {<<"p", "a", "t", "h">>, <<"r", "e", "f">>} |-> IF k = <<"r", "e", "f">> THEN ref ELSE path], net)
    IN  [outcome |-> IF r.kind = "response" /\ json = "array"
                 THEN Return(Partition(items, EmptyListing))
                 ELSE Return(EmptyListing),
         sec |-> r.kind = "SecurityError",
         sent |-> r.sent]

MAX_FILE_SIZE_MB == 10

\* The bytes of a megabyte, 1024 * 1024 in get_file_content, scaled down
BytesPerMB == 2

\* max_size = self.MAX_FILE_SIZE_MB * 1024 * 1024
max_size == MAX_FILE_SIZE_MB * BytesPerMB

\* len(c.encode("utf-8")) of one character: the model's only non-ASCII character is two bytes
Utf8Width(c) == IF c \in AsciiChars \/ c = "\n" THEN 1 ELSE 2

RECURSIVE Utf8Len(_)
Utf8Len(s) == IF s = <<>> THEN 0 ELSE Utf8Width(Head(s)) + Utf8Len(Tail(s))

\* content[:n]
Prefix(s, n) == SubSeq(s, 1, IF n < Len(s) THEN n ELSE Len(s))

\* get_file_content with the empty string for whatever is not a 404
get_file_content_blank(project_path, file_path, ref, net, text) ==
    LET r == get(<<"p", "r", "o", "j", "e", "c", "t", "s", "/">> \o Quote(project_path) \o <<"/", "r", "e", "p", "o", "s", "i", "t", "o", "r", "y", "/", "f", "i", "l", "e", "s", "/">>
                     \o Quote(file_path) \o <<"/", "r", "a", "w">>,
                 [k \in {<<"r", "e", "f">>} |-> ref], net)
    IN  [outcome |-> IF r.kind = "response" THEN Return([tag |-> "str", text |-> text])
                     ELSE IF r.kind = "HTTPError" /\ r.status = 404 THEN Return(NoneVal)
                     ELSE Return([tag |-> "str", text |-> <<>>]),
         sec |-> r.kind = "SecurityError",
         sent |-> r.sent]

\* get_file_content(project_path, file_path, ref): text is response.text
get_file_content(project_path, file_path, ref, net, text) ==
    LET r == get(<<"p", "r", "o", "j", "e", "c", "t", "s", "/">> \o Quote(project_path) \o <<"/", "r", "e", "p", "o", "s", "i", "t", "o", "r", "y", "/", "f", "i", "l", "e", "s", "/">>
                     \o Quote(file_path) \o <<"/", "r", "a", "w">>,
                 [k \in {<<"r", "e", "f">>} |-> ref], net)
    IN  [outcome |-> IF r.kind = "response"
                 THEN Return([tag |-> "str",
                              text |-> IF Utf8Len(text) > max_size
                                    THEN Prefix(text, max_size) ELSE text])
                 ELSE Return(NoneVal),
         sec |-> r.kind = "SecurityError",
         sent |-> r.sent]

\* list_tree asks for one page of this many entries
TreePerPage == 100

\* list_tree(project_path, recursive): entries is whatever JSON the body holds
list_tree(project_path, recursive, net, json, entries) ==
    LET r == get(<<"p", "r", "o", "j", "e", "c", "t", "s", "/">> \o Quote(project_path) \o <<"/", "r", "e", "p", "o", "s", "i", "t", "o", "r", "y", "/", "t", "r", "e", "e">>,
                 [k \in {<<"r", "e", "c", "u", "r", "s", "i", "v", "e">>, <<"p", "e", "r", "_", "p", "a", "g", "e">>} |->
                      IF k = <<"p", "e", "r", "_", "p", "a", "g", "e">> THEN TreePerPage ELSE recursive], net)
    IN  [outcome |-> IF r.kind = "response" /\ json # "unparsable"
                 THEN Return([items |-> entries, tag |-> "list"])
                 ELSE Return([items |-> <<>>, tag |-> "list"]),
         sec |-> r.kind = "SecurityError",
         sent |-> r.sent]

(***************************************************************************)
(* The client's operations as actions. Each draws its arguments and the    *)
(* network's answer, runs the operation and records what the caller sees.  *)
(***************************************************************************)
Endpoints ==
    {<<"p", "r", "o", "j", "e", "c", "t", "s">>, <<"/", "p", "r", "o", "j", "e", "c", "t", "s">>, <<"h", "t", "t", "p", ":", "/", "/", "g", "/", "a", "p", "i", "/", "v", "4", "/", "p", "r", "o", "j", "e", "c", "t", "s">>, <<"h", "t", "t", "p", ":", "/", "/", "e", "v", "i", "l", "/", "g">>,
     <<"h", "t", "t", "p", ":", "/", "/", "g", ".", "e", "v", "i", "l", "/", "x">>, <<"h", "t", "t", "p", ":", "/", "/", "g", "/", "x", "?", "c", "o", "n", "t", "e", "n", "t", "=", "1">>, <<"f", "i", "l", "e", "s", "/", "F", "i", "l", "e", "_", "N", "a", "m", "e">>, <<"h", "t", "t", "p", "x">>}

ParamDicts ==
    {NoParams,
     [k \in {<<"p", "a", "g", "e">>} |-> <<"1">>],
     [k \in {<<"r", "e", "f">>} |-> <<"m", "a", "i", "n">>],
     [k \in {<<"p", "a", "t", "h">>} |-> <<"c", "o", "n", "t", "e", "n", "t">>],
     [k \in {<<"c", "o", "n", "t", "e", "n", "t">>} |-> <<"x">>],
     [k \in {<<"C", "o", "n", "t", "e", "n", "t">>} |-> <<"x">>],
     [k \in {<<"p", "a", "g", "e">>, <<"r", "e", "f", "_", "n", "a", "m", "e">>} |-> <<"1">>]}

ProjectPaths == {<<"g", "/", "p">>, <<"g", "/", "M", "e", "s", "s", "a", "g", "e">>}
FilePaths == {<<"R", "E", "A", "D", "M", "E", ".", "m", "d">>, <<"d", "o", "c", "s", "/", "c", "o", "n", "t", "e", "n", "t", ".", "m", "d">>, <<"a", " ", "b", ".", "m", "d">>}
DirPaths == {<<>>, <<"d", "o", "c", "s">>}
Refs == {<<"m", "a", "i", "n">>}
FileTexts == {<<>>, <<"#", " ", "H", "i">>}
ItemLists == {<<>>} \cup {<<i>> : i \in TreeItems} \cup {<<i, j>> : i, j \in TreeItems}

\* A character of two bytes in UTF-8, written by its code point
TwoByteChar == "U+00E9"

\* n times the character c
Repeat(c, n) == [i \in 1..n |-> c]

\* The texts of files around the byte cap: of one-byte characters, of
\* two-byte characters and of both
SizedTexts ==
    {Repeat("a", n) : n \in {max_size - 1, max_size, max_size + 1}}
        \cup {Repeat(TwoByteChar, n) :
                 n \in {max_size \div 2, max_size \div 2 + 1, max_size, max_size + 1}}
        \cup {<<TwoByteChar>> \o Repeat("a", n) : n \in {max_size - 2, max_size - 1, max_size}}

\* The servers of get_all_repositories: up to MaxPages pages of 0, 47 or
\* per_page entries, the X-Total-Pages header of the responses (absent, not
\* a number, or a number), at most one page whose request fails, with the
\* answer it gets ("unparsable" is a 2xx answer whose body is not JSON).
MaxPages == 3
PageSizes == {0, 47, per_page}
Headers ==
    {[tag |-> "absent"], [tag |-> "text"]} \cup {[tag |-> "int", value |-> n] : n \in 1..MaxPages}
PageFaults ==
    (NetAnswers \ {[answer |-> "ok"]}) \cup {[answer |-> "unparsable"]}
NoFault == [answer |-> "ok"]
Servers ==
    {[fault |-> fault, fault_page |-> fault_page, header |-> header,
      malformed |-> malformed, sizes |-> sizes] :
        fault \in PageFaults, fault_page \in 1..MaxPages, header \in Headers,
        malformed \in BOOLEAN, sizes \in UNION {[1..n -> PageSizes] : n \in 1..MaxPages}}
    \cup
    {[fault |-> NoFault, fault_page |-> 0, header |-> header,
      malformed |-> malformed, sizes |-> sizes] :
        header \in Headers,
        malformed \in BOOLEAN, sizes \in UNION {[1..n -> PageSizes] : n \in 1..MaxPages}}

\* The servers that the one-step call of get_all_repositories below meets
SmallServers ==
    {sv \in Servers : /\ sv.sizes \in {<<47>>, <<per_page, 47>>}
                      /\ sv.header \in {[tag |-> "absent"], [tag |-> "int", value |-> 2]}
                      /\ sv.fault_page <= 2}

\* The operations whose 404 and transient outcomes are compared
LookupOps == {"get_repository", "list_directory", "get_file_content"}

IsNotFound(net) == net.answer = "http" /\ net.status = 404
IsTransient(net) == net.answer \in {"timeout", "connection"} \/ (net.answer = "http" /\ net.status >= 500)

\* The record of a call: its arguments, the network's answer and what
\* the operation made of it
CallOf(op, args, net, body, r) ==
    [args |-> args, body |-> body, net |-> net, op |-> op, outcome |-> r.outcome,
     sec |-> r.sec, sent |-> r.sent]

\* get() as its caller sees it: the response, or the exception it raises
GetOutcome(r) ==
    [outcome |-> IF r.kind = "response" THEN Return([tag |-> "Response"]) ELSE Raise(r.kind),
     sec |-> r.kind = "SecurityError",
     sent |-> r.sent]

\* The calls of each operation over the inputs above
GetCalls ==
    {CallOf("get", [endpoint |-> endpoint, params |-> params, url |-> ResolveUrl(endpoint)],
            net, "text", GetOutcome(get(endpoint, params, net))) :
        endpoint \in Endpoints, params \in ParamDicts, net \in NetAnswers}

GetRepositoryCalls ==
    {CallOf("get_repository", [project_path |-> project_path], net, json,
            get_repository(project_path, net, json)) :
        project_path \in ProjectPaths, net \in NetAnswers, json \in JsonShapes}

ListDirectoryCalls ==
    {CallOf("list_directory", [path |-> path, project_path |-> project_path, ref |-> ref], net, json,
            list_directory(project_path, path, ref, net, json, items)) :
        project_path \in ProjectPaths, path \in DirPaths, ref \in Refs,
        net \in NetAnswers, json \in JsonShapes, items \in ItemLists}

GetFileContentCalls ==
    {CallOf("get_file_content",
            [file_path |-> file_path, project_path |-> project_path, ref |-> ref], net, "text",
            get_file_content(project_path, file_path, ref, net, text)) :
        project_path \in ProjectPaths, file_path \in FilePaths, ref \in Refs,
        net \in NetAnswers, text \in FileTexts}

\* The calls of get_file_content for the files around the byte cap, with
\* response.text among the arguments
SizedFileContentCalls ==
    {CallOf("get_file_content",
            [file_path |-> file_path, project_path |-> project_path, ref |-> ref,
             text |-> text], net, "text",
            get_file_content(project_path, file_path, ref, net, text)) :
        project_path \in ProjectPaths, file_path \in FilePaths, ref \in Refs,
        net \in NetAnswers, text \in SizedTexts}

ListTreeCalls ==
    {CallOf("list_tree", [project_path |-> project_path, recursive |-> recursive], net, json,
            list_tree(project_path, recursive, net, json, entries)) :
        project_path \in ProjectPaths, recursive \in BOOLEAN,
        net \in NetAnswers, json \in JsonShapes, entries \in ItemLists}

GetAllRepositoriesCalls ==
    {CallOf("get_all_repositories", [server |-> sv], sv.fault,
            IF sv.fault.answer = "unparsable" THEN "unparsable" ELSE "array",
            get_all_repositories(sv)) :
        sv \in SmallServers}

\* The caller's record of the 404 outcomes after call c of operation op
Note404(c) ==
    IF ~c.sec /\ IsNotFound(c.net) THEN [last404 EXCEPT ![c.op] = c.outcome] ELSE last404

Get ==
    \E c \in GetCalls :
        /\ call' = c
        /\ UNCHANGED <<last404, nonClientVars>>

GetRepository ==
    \E c \in GetRepositoryCalls :
        /\ call' = c
        /\ last404' = Note404(c)
        /\ UNCHANGED nonClientVars

ListDirectory ==
    \E c \in ListDirectoryCalls :
        /\ call' = c
        /\ last404' = Note404(c)
        /\ UNCHANGED nonClientVars

GetFileContent ==
    \E c \in GetFileContentCalls :
        /\ call' = c
        /\ last404' = Note404(c)
        /\ UNCHANGED nonClientVars

GetSizedFileContent ==
    \E c \in SizedFileContentCalls :
        /\ call' = c
        /\ last404' = Note404(c)
        /\ UNCHANGED nonClientVars

ListTree ==
    \E c \in ListTreeCalls :
        /\ call' = c
        /\ UNCHANGED <<last404, nonClientVars>>

GetAllRepositories ==
    \E c \in GetAllRepositoriesCalls :
        /\ call' = c
        /\ UNCHANGED <<last404, nonClientVars>>

NoCall == [op |-> "none"]
NoOutcome == [kind |-> "none"]

\* The client before its first call
ClientIdle ==
    /\ call = NoCall
    /\ last404 = [get_file_content |-> NoOutcome, get_repository |-> NoOutcome,
                  list_directory |-> NoOutcome]

IdleServer ==
    [fault |-> NoFault, fault_page |-> 0, header |-> [tag |-> "absent"],
     malformed |-> FALSE, sizes |-> <<>>]

\* No get_all_repositories is running step by step
PagingIdle ==
    /\ server = IdleServer
    /\ loop = LoopStart

(***************************************************************************)
(* get_all_repositories step by step: one action per iteration of its      *)
(* loop, against a server chosen at the start.                             *)
(***************************************************************************)
GetAllRepositoriesPage ==
    /\ ~loop.done
    /\ loop' = FetchPage(server, loop)
    /\ UNCHANGED <<server, nonPagingVars>>

(***************************************************************************)
(* Data models (models.py)                                                 *)
(***************************************************************************)
\* Python values
Bool(b) == [tag |-> "bool", value |-> b]
Num(n) == [tag |-> "num", value |-> n]
Str(text) == [tag |-> "str", text |-> text]
List(items) == [items |-> items, tag |-> "list"]
Dict(items) == [items |-> items, tag |-> "dict"]

\* The body of class DocType, in its order
DocTypeDecl ==
    <<[name |-> "README", value |-> 5],
      [name |-> "AGENTS", value |-> 4],
      [name |-> "CLAUDE", value |-> 4],
      [name |-> "CHANGELOG", value |-> 3],
      [name |-> "ENTRY", value |-> 2]>>

DocTypeNames == {DocTypeDecl[i].name : i \in 1..Len(DocTypeDecl)}

\* In an Enum two names of one value are one member, known by the first of
\* the names. A member is represented by its value.
\* DocType[name], DocType.<name>
DocTypeOf(name) == DocTypeDecl[CHOOSE i \in 1..Len(DocTypeDecl) : DocTypeDecl[i].name = name].value

\* member.name
DocTypeName(member) ==
    LET first == CHOOSE i \in 1..Len(DocTypeDecl) :
                     /\ DocTypeDecl[i].value = member
                     /\ \A j \in 1..(i - 1) : DocTypeDecl[j].value # member
    IN  DocTypeDecl[first].name

\* The fields of the dataclass Repository, and those without a default
RepositoryFields ==
    {"id", "name", "path", "description", "url", "stars", "forks", "issues",
     "visibility", "default_branch", "created_at", "last_activity_at"}
RequiredRepositoryFields == {"id", "name", "path"}

\* A Repository; of its fields with a default only description is kept
Repository(id, name, path, description) ==
    [description |-> description, id |-> id, name |-> name, path |-> path,
     tag |-> "Repository"]

\* dataclasses.asdict(repo)
asdict(repo) ==
    [description |-> repo.description, id |-> repo.id, name |-> repo.name, path |-> repo.path]

\* Repository(**repo_data) does not raise TypeError
IsRepositoryData(repo_data) ==
    /\ RequiredRepositoryFields \subseteq DOMAIN repo_data
    /\ DOMAIN repo_data \subseteq RepositoryFields

\* Repository(**repo_data)
RepositoryFrom(repo_data) ==
    Repository(repo_data.id, repo_data.name, repo_data.path,
               IF "description" \in DOMAIN repo_data THEN repo_data.description ELSE <<>>)

(***************************************************************************)
(* GitLabCacheManager (cache.py)                                           *)
(***************************************************************************)
\* The TTLs given to the constructor, in seconds
repo_ttl == 2
doc_ttl == 3

\* The clock when the model starts, long after the epoch (time 0), and the
\* time at which the model stops it
StartTime == 10
MaxTime == 13

\* A cache file: missing, not JSON, or a JSON value
Missing == [tag |-> "missing"]
Garbage == [tag |-> "garbage"]
JsonFile(value) == [tag |-> "json", value |-> value]

\* The sequence Op(lo), ..., Op(hi), built of its two halves
RECURSIVE Tabulate(_, _, _)
Tabulate(Op(_), lo, hi) ==
    IF lo > hi THEN <<>>
    ELSE IF lo = hi THEN <<Op(lo)>>
    ELSE Tabulate(Op, lo, (lo + hi) \div 2) \o Tabulate(Op, ((lo + hi) \div 2) + 1, hi)

\* [Op(item) for item in items]
MapSeq(Op(_), items) == Tabulate(LAMBDA i : Op(items[i]), 1, Len(items))

\* _load_repositories on the repository cache file: the manager's list and its time
_load_repositories(file) ==
    LET unloaded == [_repo_cache |-> NoneVal, _repo_cache_time |-> Num(0)]
    IN  IF file.tag # "json" THEN unloaded
        ELSE LET data == file.value
                 repos_data == IF "repositories" \in DOMAIN data THEN data.repositories
                               ELSE List(<<>>)
             IN  IF data.tag # "object" THEN unloaded
                 ELSE IF repos_data.tag # "list" THEN unloaded
                 ELSE IF \E i \in 1..Len(repos_data.items) : ~IsRepositoryData(repos_data.items[i])
                      THEN unloaded
                 ELSE [_repo_cache |-> List(MapSeq(RepositoryFrom, repos_data.items)),
                       _repo_cache_time |-> IF "timestamp" \in DOMAIN data THEN data.timestamp
                                            ELSE Num(0)]

\* _save_repositories at time t: the repository cache file afterwards
_save_repositories(cache, t, file) ==
    IF cache = NoneVal THEN file
    ELSE JsonFile([repositories |-> List(MapSeq(asdict, cache.items)), tag |-> "object",
                   timestamp |-> Num(t), version |-> "1.0"])

\* is_repo_cache_valid with a cache still valid when its age is the TTL
is_repo_cache_valid_inclusive(cache, cache_time, t) ==
    IF cache = NoneVal THEN Return(Bool(FALSE))
    ELSE IF cache_time.tag # "num" THEN Raise("TypeError")
    ELSE Return(Bool(t - cache_time.value <= repo_ttl))

\* is_repo_cache_valid at time t
is_repo_cache_valid(cache, cache_time, t) ==
    IF cache = NoneVal THEN Return(Bool(FALSE))
    ELSE IF cache_time.tag # "num" THEN Raise("TypeError")
    ELSE Return(Bool(t - cache_time.value < repo_ttl))

\* get_repositories at time t
get_repositories(cache, cache_time, t) ==
    LET valid == is_repo_cache_valid(cache, cache_time, t)
    IN  IF valid.kind = "raise" THEN valid
        ELSE IF valid.value.value THEN Return(cache)
        ELSE Return(NoneVal)

\* A DocFile and a DocIndex
DocFile(path, name, doc_type, content, size, cached_at, ref) ==
    [cached_at |-> cached_at, content |-> content, doc_type |-> doc_type, name |-> name,
     path |-> path, ref |-> ref, size |-> size, tag |-> "DocFile"]

DocIndex(repo_path, doc_type, files, best_file) ==
    [best_file |-> best_file, doc_type |-> doc_type, files |-> files,
     repo_path |-> repo_path, tag |-> "DocIndex"]

\* _serialize_doc_index
_serialize_doc_index(index) ==
    [best_file |-> index.best_file,
     doc_type |-> DocTypeName(index.doc_type),
     files |-> Dict([path \in DOMAIN index.files |->
                  LET f == index.files[path]
                  IN  [cached_at |-> f.cached_at, content |-> f.content,
                       doc_type |-> DocTypeName(f.doc_type), name |-> f.name,
                       path |-> f.path, ref |-> f.ref, size |-> f.size]]),
     repo_path |-> index.repo_path]

\* _deserialize_doc_index raises no KeyError
IsDocIndexData(data) ==
    /\ "repo_path" \in DOMAIN data
    /\ ("doc_type" \in DOMAIN data => data.doc_type \in DocTypeNames)
    /\ "files" \in DOMAIN data =>
           \A path \in DOMAIN data.files.items :
               LET f_data == data.files.items[path]
               IN  /\ {"path", "name"} \subseteq DOMAIN f_data
                   /\ ("doc_type" \in DOMAIN f_data => f_data.doc_type \in DocTypeNames)

\* dict.get(key, default)
DictGet(dict, key, default) == IF key \in DOMAIN dict THEN dict[key] ELSE default

\* _deserialize_doc_index
_deserialize_doc_index(data) ==
    LET files_data == DictGet(data, "files", Dict(<<>>)).items
    IN  DocIndex(data.repo_path,
                 DocTypeOf(DictGet(data, "doc_type", "README")),
                 [path \in DOMAIN files_data |->
                     LET f_data == files_data[path]
                     IN  DocFile(f_data.path, f_data.name,
                                 DocTypeOf(DictGet(f_data, "doc_type", "README")),
                                 DictGet(f_data, "content", <<>>),
                                 DictGet(f_data, "size", 0),
                                 DictGet(f_data, "cached_at", 0),
                                 DictGet(f_data, "ref", <<"m", "a", "i", "n">>))],
                 DictGet(data, "best_file", NoneVal))

\* _load_documentation on the documentation cache file: the manager's dict and its time
_load_documentation(file) ==
    LET unloaded == [_doc_cache |-> <<>>, _doc_cache_time |-> Num(0)]
    IN  IF file.tag # "json" THEN unloaded
        ELSE LET data == file.value
                 cache_data == IF "cache" \in DOMAIN data THEN data.cache ELSE Dict(<<>>)
             IN  IF data.tag # "object" THEN unloaded
                 ELSE IF cache_data.tag # "dict" THEN unloaded
                 ELSE IF \E path \in DOMAIN cache_data.items : ~IsDocIndexData(cache_data.items[path])
                      THEN unloaded
                 ELSE [_doc_cache |-> [path \in DOMAIN cache_data.items |->
                                          _deserialize_doc_index(cache_data.items[path])],
                       _doc_cache_time |-> IF "timestamp" \in DOMAIN data THEN data.timestamp
                                           ELSE Num(0)]

\* _save_documentation at time t: the documentation cache file afterwards
_save_documentation(cache, t, file) ==
    IF DOMAIN cache = {} THEN file
    ELSE JsonFile([cache |-> Dict([path \in DOMAIN cache |-> _serialize_doc_index(cache[path])]),
                   tag |-> "object", timestamp |-> Num(t), version |-> "2.0"])

\* is_doc_cache_valid at time t
is_doc_cache_valid(cache, cache_time, t) ==
    IF DOMAIN cache = {} THEN Return(Bool(FALSE))
    ELSE IF cache_time.tag # "num" THEN Raise("TypeError")
    ELSE Return(Bool(t - cache_time.value < doc_ttl))

\* get_doc_index
get_doc_index(cache, repo_path) ==
    IF repo_path \in DOMAIN cache THEN Return(cache[repo_path]) ELSE Return(NoneVal)

\* A manager: its caches and its files
Manager(repos, repos_time, docs, docs_time, repos_file, docs_file) ==
    [_doc_cache |-> docs, _doc_cache_time |-> docs_time, _repo_cache |-> repos,
     _repo_cache_time |-> repos_time, doc_file |-> docs_file, repo_file |-> repos_file]

\* set_doc_index that keeps no other index
set_doc_index_alone(manager, repo_path, index) ==
    [manager EXCEPT !._doc_cache = repo_path :> index]

\* set_doc_index(repo_path, index): the manager afterwards
set_doc_index(manager, repo_path, index) ==
    [manager EXCEPT !._doc_cache = (repo_path :> index) @@ @]

(***************************************************************************)
(* The cache manager's operations as actions, over cache files found in    *)
(* any condition.                                                          *)
(***************************************************************************)
Repo1 == Repository(1, <<"n", "e", "x", "u", "s">>, <<"g", "/", "n", "e", "x", "u", "s">>, <<"Z", "u", "l", "i", "p", " ", "b", "o", "t", "s">>)
Repo2 == Repository(2, <<"d", "o", "c", "s">>, <<"g", "/", "d", "o", "c", "s">>, <<>>)
RepoLists == {<<>>, <<Repo1>>, <<Repo1, Repo2>>}

Index1 ==
    DocIndex(<<"g", "/", "n", "e", "x", "u", "s">>, DocTypeOf("README"),
             <<"R", "E", "A", "D", "M", "E", ".", "m", "d">> :> DocFile(<<"R", "E", "A", "D", "M", "E", ".", "m", "d">>, <<"R", "E", "A", "D", "M", "E", ".", "m", "d">>, DocTypeOf("README"),
                                      <<"#", " ", "N", "e", "x", "u", "s">>, 7, StartTime - 1, <<"m", "a", "i", "n">>),
             Str(<<"R", "E", "A", "D", "M", "E", ".", "m", "d">>))
Index1Later ==
    DocIndex(<<"g", "/", "n", "e", "x", "u", "s">>, DocTypeOf("CHANGELOG"),
             <<"C", "H", "A", "N", "G", "E", "L", "O", "G", ".", "m", "d">> :> DocFile(<<"C", "H", "A", "N", "G", "E", "L", "O", "G", ".", "m", "d">>, <<"C", "H", "A", "N", "G", "E", "L", "O", "G", ".", "m", "d">>, DocTypeOf("CHANGELOG"),
                                         <<"v", "2">>, 2, StartTime, <<"m", "a", "i", "n">>),
             Str(<<"C", "H", "A", "N", "G", "E", "L", "O", "G", ".", "m", "d">>))
Index2 ==
    DocIndex(<<"g", "/", "d", "o", "c", "s">>, DocTypeOf("CLAUDE"),
             <<"C", "L", "A", "U", "D", "E", ".", "m", "d">> :> DocFile(<<"C", "L", "A", "U", "D", "E", ".", "m", "d">>, <<"C", "L", "A", "U", "D", "E", ".", "m", "d">>, DocTypeOf("CLAUDE"),
                                      <<"n", "o", "t", "e", "s">>, 5, StartTime - 1, <<"m", "a", "i", "n">>),
             Str(<<"C", "L", "A", "U", "D", "E", ".", "m", "d">>))
DocIndexes == {Index1, Index1Later, Index2}

\* The times found in cache files: the epoch, just expired, still fresh
RepoFileTimes == {0, StartTime - repo_ttl, StartTime - 1}
DocFileTimes == {0, StartTime - doc_ttl, StartTime - 1}

\* The repository cache files that a manager has written
WrittenRepoFiles ==
    {_save_repositories(List(repositories), t, Missing) :
        repositories \in RepoLists, t \in RepoFileTimes}

\* The conditions of the repository cache file: missing, not JSON, JSON of a
\* wrong structure, written by a manager
RepoFiles ==
    {Missing, Garbage,
     JsonFile([tag |-> "array"]),
     JsonFile([tag |-> "object"]),
     JsonFile([tag |-> "object", timestamp |-> Num(StartTime - 1)]),
     JsonFile([repositories |-> NoneVal, tag |-> "object", timestamp |-> Num(StartTime - 1)]),
     JsonFile([repositories |-> List(<<[id |-> 1, name |-> <<"n", "e", "x", "u", "s">>]>>), tag |-> "object",
               timestamp |-> Num(StartTime - 1)]),
     JsonFile([repositories |-> List(<<asdict(Repo1)>>), tag |-> "object"]),
     JsonFile([repositories |-> List(<<asdict(Repo1)>>), tag |-> "object",
               timestamp |-> Str(<<"y", "e", "s", "t", "e", "r", "d", "a", "y">>)])}
    \cup WrittenRepoFiles

WrittenDocFiles ==
    {_save_documentation(cache, t, Missing) :
        cache \in {<<"g", "/", "n", "e", "x", "u", "s">> :> Index1, (<<"g", "/", "n", "e", "x", "u", "s">> :> Index1) @@ (<<"g", "/", "d", "o", "c", "s">> :> Index2)},
        t \in DocFileTimes}

DocFiles ==
    {Missing, Garbage,
     JsonFile([tag |-> "array"]),
     JsonFile([tag |-> "object"]),
     JsonFile([cache |-> NoneVal, tag |-> "object", timestamp |-> Num(StartTime - 1)]),
     JsonFile([cache |-> Dict(<<"g", "/", "n", "e", "x", "u", "s">> :> [doc_type |-> "README"]), tag |-> "object",
               timestamp |-> Num(StartTime - 1)]),
     JsonFile([cache |-> Dict(<<"g", "/", "n", "e", "x", "u", "s">> :> [doc_type |-> "WIKI", repo_path |-> <<"g", "/", "n", "e", "x", "u", "s">>]),
               tag |-> "object", timestamp |-> Num(StartTime - 1)]),
     JsonFile([cache |-> Dict(<<"g", "/", "n", "e", "x", "u", "s">> :> _serialize_doc_index(Index1)), tag |-> "object",
               timestamp |-> Str(<<"y", "e", "s", "t", "e", "r", "d", "a", "y">>)])}
    \cup WrittenDocFiles

NeverSet == [tag |-> "never"]

\* The outcome of a call of the manager made at time t
Reply(op, args, outcome, t) == [args |-> args, op |-> op, outcome |-> outcome, timestamp |-> t]

\* There is no second manager
NoPeer == [tag |-> "none"]

\* The caches of a manager
Memory(repos, repos_time, docs, docs_time) ==
    [_doc_cache |-> docs, _doc_cache_time |-> docs_time, _repo_cache |-> repos,
     _repo_cache_time |-> repos_time]

\* __init__ has loaded the cache files
Loaded ==
    LET repos == _load_repositories(repo_file)
        docs == _load_documentation(doc_file)
    IN  /\ _repo_cache = repos._repo_cache
        /\ _repo_cache_time = repos._repo_cache_time
        /\ _doc_cache = docs._doc_cache
        /\ _doc_cache_time = docs._doc_cache_time

\* A manager constructed over cache files in any condition
CacheStart ==
    /\ now = StartTime
    /\ repo_file \in RepoFiles
    /\ doc_file \in DocFiles
    /\ Loaded
    /\ last_set = NeverSet
    /\ reply = Reply("__init__", <<>>, Return(NoneVal), now)
    /\ peer = NoPeer

\* No cache manager is at work
CacheIdle ==
    /\ now = StartTime
    /\ repo_file = Missing
    /\ doc_file = Missing
    /\ Loaded
    /\ last_set = NeverSet
    /\ reply = Reply("__init__", <<>>, Return(NoneVal), now)
    /\ peer = NoPeer

\* The clock advances
Tick ==
    /\ now < MaxTime
    /\ now' = now + 1
    /\ UNCHANGED <<diskVars, memoryVars, last_set, reply, nonCacheVars>>

\* __init__: a new manager over the cache files as they are
Construct ==
    /\ _repo_cache' = _load_repositories(repo_file)._repo_cache
    /\ _repo_cache_time' = _load_repositories(repo_file)._repo_cache_time
    /\ _doc_cache' = _load_documentation(doc_file)._doc_cache
    /\ _doc_cache_time' = _load_documentation(doc_file)._doc_cache_time
    /\ last_set' = IF last_set = NeverSet THEN NeverSet ELSE [last_set EXCEPT !.tag = "loaded"]
    /\ reply' = Reply("__init__", <<>>, Return(NoneVal), now)
    /\ UNCHANGED <<now, diskVars, nonCacheVars>>

SetRepositories ==
    \E repositories \in RepoLists :
        /\ _repo_cache' = List(repositories)
        /\ _repo_cache_time' = Num(now)
        /\ repo_file' = _save_repositories(List(repositories), now, repo_file)
        /\ last_set' = [repositories |-> repositories, tag |-> "set", timestamp |-> now]
        /\ reply' = Reply("set_repositories", <<>>, Return(NoneVal), now)
        /\ UNCHANGED <<now, doc_file, _doc_cache, _doc_cache_time, nonCacheVars>>

GetRepositories ==
    /\ reply' = Reply("get_repositories", <<>>,
                      get_repositories(_repo_cache, _repo_cache_time, now), now)
    /\ UNCHANGED <<now, diskVars, memoryVars, last_set, nonCacheVars>>

IsDocCacheValid ==
    /\ reply' = Reply("is_doc_cache_valid", <<>>,
                      is_doc_cache_valid(_doc_cache, _doc_cache_time, now), now)
    /\ UNCHANGED <<now, diskVars, memoryVars, last_set, nonCacheVars>>

GetDocIndex ==
    \E index \in DocIndexes :
        /\ reply' = Reply("get_doc_index", <<index.repo_path>>,
                          get_doc_index(_doc_cache, index.repo_path), now)
        /\ UNCHANGED <<now, diskVars, memoryVars, last_set, nonCacheVars>>

SetDocIndex ==
    \E index \in DocIndexes :
        \E after \in {set_doc_index(Manager(_repo_cache, _repo_cache_time, _doc_cache,
                                            _doc_cache_time, repo_file, doc_file),
                                    index.repo_path, index)} :
            /\ _repo_cache' = after._repo_cache
            /\ _repo_cache_time' = after._repo_cache_time
            /\ _doc_cache' = after._doc_cache
            /\ _doc_cache_time' = after._doc_cache_time
            /\ repo_file' = after.repo_file
            /\ doc_file' = after.doc_file
            /\ reply' = Reply("set_doc_index", <<index.repo_path>>, Return(NoneVal), now)
            /\ UNCHANGED <<now, last_set, nonCacheVars>>

Save ==
    /\ repo_file' = _save_repositories(_repo_cache, now, repo_file)
    /\ doc_file' = _save_documentation(_doc_cache, now, doc_file)
    /\ reply' = Reply("save", <<>>, Return(NoneVal), now)
    /\ UNCHANGED <<now, memoryVars, last_set, nonCacheVars>>

Clear ==
    /\ _repo_cache' = NoneVal
    /\ _repo_cache_time' = Num(0)
    /\ _doc_cache' = <<>>
    /\ _doc_cache_time' = Num(0)
    /\ repo_file' = Missing
    /\ doc_file' = Missing
    /\ last_set' = NeverSet
    /\ reply' = Reply("clear", <<>>, Return(NoneVal), now)
    /\ UNCHANGED <<now, nonCacheVars>>

\* Two managers constructed over one cache directory, in which an earlier
\* manager has left files or has not
SharedStart ==
    /\ now = StartTime
    /\ repo_file \in {Missing, _save_repositories(List(<<Repo1>>), StartTime - 1, Missing)}
    /\ doc_file \in {Missing,
                     _save_documentation(Repo1.path :> Index1, StartTime - 1, Missing)}
    /\ Loaded
    /\ peer = Memory(_repo_cache, _repo_cache_time, _doc_cache, _doc_cache_time)
    /\ last_set = NeverSet
    /\ reply = Reply("__init__", <<>>, Return(NoneVal), now)

\* The next calls are made on the other manager: each manager has its own
\* caches, the files are those of the one directory
Switch ==
    /\ peer # NoPeer
    /\ peer' = Memory(_repo_cache, _repo_cache_time, _doc_cache, _doc_cache_time)
    /\ _repo_cache' = peer._repo_cache
    /\ _repo_cache_time' = peer._repo_cache_time
    /\ _doc_cache' = peer._doc_cache
    /\ _doc_cache_time' = peer._doc_cache_time
    /\ UNCHANGED <<now, diskVars, last_set, reply, clientVars, pagingVars, indexerVars,
                   searchVars>>

(***************************************************************************)
(* DocumentationIndexer (indexer.py)                                       *)
(***************************************************************************)
\* Regular expressions, matched as re matches them: a piece of a pattern
\* takes the positions of the subject at which it may start and gives the
\* positions at which it may end.
Anywhere(s) == 1..(Len(s) + 1)

\* a literal text
Lit(p, s, from) == {i + Len(p) : i \in {j \in from : MatchAt(p, s, j)}}

\* one of several literal texts: (a|b|c)
AnyOf(ps, s, from) == UNION {Lit(p, s, from) : p \in ps}

\* [^/]*
NotSlashes(s, from) ==
    {j \in Anywhere(s) : \E i \in from : i <= j /\ \A k \in i..(j - 1) : s[k] # "/"}

\* ^
Bol(from) == from \cap {1}

\* $: the end of the subject, or just before its final newline
Eol(s, from) == {i \in from : i = Len(s) + 1 \/ (i = Len(s) /\ s[i] = "\n")}

\* re.search(pattern, string, re.IGNORECASE) finds a match, for the patterns
\* of DOC_PATTERNS; the letters of the patterns are matched in lower case
\* against the subject in lower case.
re_search(pattern, string) ==
    LET s == Lower(string)
        Whole(p) == Eol(s, Lit(p, s, Bol(Anywhere(s)))) # {}
        Dotted(stem, exts) ==
            LET dot == Lit(<<".">>, s, NotSlashes(s, AnyOf(stem, s, Anywhere(s))))
            IN  Eol(s, dot \cup AnyOf(exts, s, dot)) # {}
    IN  CASE pattern = "README[^/]*\\.(md|rst|txt|markdown)?$" ->
                Dotted({<<"r", "e", "a", "d", "m", "e">>}, {<<"m", "d">>, <<"r", "s", "t">>, <<"t", "x", "t">>, <<"m", "a", "r", "k", "d", "o", "w", "n">>})
          [] pattern = "^README[^/]*$" ->
                Eol(s, NotSlashes(s, Lit(<<"r", "e", "a", "d", "m", "e">>, s, Bol(Anywhere(s))))) # {}
          [] pattern = "AGENTS\\.md$" -> Eol(s, Lit(<<"a", "g", "e", "n", "t", "s", ".", "m", "d">>, s, Anywhere(s))) # {}
          [] pattern = "CLAUDE\\.md$" -> Eol(s, Lit(<<"c", "l", "a", "u", "d", "e", ".", "m", "d">>, s, Anywhere(s))) # {}
          [] pattern = "CHANGE(S|LOG)[^/]*\\.(md|rst|txt)?$" ->
                Dotted({<<"c", "h", "a", "n", "g", "e", "s">>, <<"c", "h", "a", "n", "g", "e", "l", "o", "g">>}, {<<"m", "d">>, <<"r", "s", "t">>, <<"t", "x", "t">>})
          [] pattern = "HISTORY[^/]*\\.(md|rst|txt)?$" ->
                Dotted({<<"h", "i", "s", "t", "o", "r", "y">>}, {<<"m", "d">>, <<"r", "s", "t">>, <<"t", "x", "t">>})
          [] pattern = "^main\\.py$" -> Whole(<<"m", "a", "i", "n", ".", "p", "y">>)
          [] pattern = "^index\\.(js|ts)$" -> Whole(<<"i", "n", "d", "e", "x", ".", "j", "s">>) \/ Whole(<<"i", "n", "d", "e", "x", ".", "t", "s">>)
          [] pattern = "^Cargo\\.toml$" -> Whole(<<"c", "a", "r", "g", "o", ".", "t", "o", "m", "l">>)
          [] pattern = "^package\\.json$" -> Whole(<<"p", "a", "c", "k", "a", "g", "e", ".", "j", "s", "o", "n">>)
          [] pattern = "^go\\.mod$" -> Whole(<<"g", "o", ".", "m", "o", "d">>)
          [] pattern = "^setup\\.py$" -> Whole(<<"s", "e", "t", "u", "p", ".", "p", "y">>)
          [] pattern = "^pyproject\\.toml$" -> Whole(<<"p", "y", "p", "r", "o", "j", "e", "c", "t", ".", "t", "o", "m", "l">>)

\* The dict display that DOC_PATTERNS is bound to, entry by entry; the key
\* of an entry is DocType.<name>
DocPatternEntries ==
    <<[name |-> "README",
       patterns |-> <<"README[^/]*\\.(md|rst|txt|markdown)?$", "^README[^/]*$">>],
      [name |-> "AGENTS", patterns |-> <<"AGENTS\\.md$">>],
      [name |-> "CLAUDE", patterns |-> <<"CLAUDE\\.md$">>],
      [name |-> "CHANGELOG",
       patterns |-> <<"CHANGE(S|LOG)[^/]*\\.(md|rst|txt)?$", "HISTORY[^/]*\\.(md|rst|txt)?$">>],
      [name |-> "ENTRY",
       patterns |-> <<"^main\\.py$", "^index\\.(js|ts)$", "^Cargo\\.toml$", "^package\\.json$",
                      "^go\\.mod$", "^setup\\.py$", "^pyproject\\.toml$">>]>>

\* A dict display binds each key to the value of the last entry with that key.
DOC_PATTERNS ==
    LET KeyOf(i) == DocTypeOf(DocPatternEntries[i].name)
        entries == 1..Len(DocPatternEntries)
    IN  [member \in {KeyOf(i) : i \in entries} |->
            LET last == CHOOSE i \in entries :
                            /\ KeyOf(i) = member
                            /\ \A j \in entries : j > i => KeyOf(j) # member
            IN  DocPatternEntries[last].patterns]

\* The texts that the patterns of SENSITIVE_PATTERNS match: each pattern is a
\* literal text, with its dots escaped
SENSITIVE_PATTERNS ==
    <<<<".", "e", "n", "v">>, <<"c", "r", "e", "d", "e", "n", "t", "i", "a", "l">>, <<"s", "e", "c", "r", "e", "t">>, <<"p", "r", "i", "v", "a", "t", "e">>, <<"p", "a", "s", "s", "w", "d">>, <<"p", "a", "s", "s", "w", "o", "r", "d">>, <<".", "k", "e", "y">>,
      <<".", "p", "e", "m">>, <<"t", "o", "k", "e", "n">>, <<"a", "p", "i", "_", "k", "e", "y">>, <<"a", "u", "t", "h">>, <<".", "g", "i", "t", "/">>, <<"s", "s", "h", "/">>, <<"i", "d", "_", "r", "s", "a">>, <<"k", "e", "y", "s", "t", "o", "r", "e">>,
      <<".", "j", "k", "s">>, <<".", "p", "1", "2">>, <<".", "p", "f", "x">>, <<"n", "e", "t", "r", "c">>, <<".", "h", "t", "p", "a", "s", "s", "w", "d">>>>

ALLOWED_EXTENSIONS ==
    {<<".", "m", "d">>, <<".", "r", "s", "t">>, <<".", "t", "x", "t">>, <<".", "m", "a", "r", "k", "d", "o", "w", "n">>, <<".", "p", "y">>, <<".", "j", "s">>, <<".", "t", "s">>, <<".", "g", "o">>, <<".", "r", "s">>,
     <<".", "j", "s", "o", "n">>, <<".", "t", "o", "m", "l">>, <<".", "y", "a", "m", "l">>, <<".", "y", "m", "l">>, <<>>}

\* str.rfind(c), counted from 1: 0 when c is not in s
RFind(s, c) ==
    IF \E i \in 1..Len(s) : s[i] = c
    THEN CHOOSE i \in 1..Len(s) : s[i] = c /\ \A j \in (i + 1)..Len(s) : s[j] # c
    ELSE 0

\* os.path.splitext(p)[1]: the extension starts at the last dot of the last
\* component, unless only dots come before it in that component
splitext(p) ==
    LET sepIndex == RFind(p, "/")
        dotIndex == RFind(p, ".")
    IN  IF dotIndex > sepIndex /\ \E k \in (sepIndex + 1)..(dotIndex - 1) : p[k] # "."
        THEN SubSeq(p, dotIndex, Len(p))
        ELSE <<>>

\* _validate_file_path without the test of the sensitive patterns
_validate_file_path_by_extension(file_path) ==
    /\ file_path # <<>>
    /\ Lower(splitext(file_path)) \in ALLOWED_EXTENSIONS

\* _validate_file_path: is_valid
_validate_file_path(file_path) ==
    /\ file_path # <<>>
    /\ LET path_lower == Lower(file_path)
       IN  \A i \in 1..Len(SENSITIVE_PATTERNS) : ~IsSubstr(SENSITIVE_PATTERNS[i], path_lower)
    /\ Lower(splitext(file_path)) \in ALLOWED_EXTENSIONS

\* list(DocType): the members in the order of their definition; a second
\* name of a value is no member of its own
RECURSIVE Members(_, _)
Members(decl, seen) ==
    IF decl = <<>> THEN <<>>
    ELSE IF Head(decl).value \in seen THEN Members(Tail(decl), seen)
    ELSE <<Head(decl).value>> \o Members(Tail(decl), seen \cup {Head(decl).value})

\* sorted(members, key=lambda x: x.value, reverse=True)
RECURSIVE SortedByValue(_)
SortedByValue(members) ==
    IF members = {} THEN <<>>
    ELSE LET top == CHOOSE x \in members : \A y \in members : y <= x
         IN  <<top>> \o SortedByValue(members \ {top})

ByPriority == SortedByValue(Range(Members(DocTypeDecl, {})))

\* A DocType member where None is possible too
Member(value) == [tag |-> "DocType", value |-> value]

\* _detect_doc_type
_detect_doc_type(file_name) ==
    LET Detects(i) ==
            LET patterns == DictGet(DOC_PATTERNS, ByPriority[i], <<>>)
            IN  \E k \in 1..Len(patterns) : re_search(patterns[k], file_name)
        hits == {i \in 1..Len(ByPriority) : Detects(i)}
    IN  IF hits = {} THEN NoneVal
        ELSE Member(ByPriority[CHOOSE i \in hits : \A j \in hits : i <= j])

\* The repositories that are indexed; the client refuses every request for
\* the third, whose name is among the forbidden parameter names
Repo3 == Repository(3, <<"M", "e", "s", "s", "a", "g", "e">>, <<"g", "/", "M", "e", "s", "s", "a", "g", "e">>, <<>>)
Repos == {Repo1, Repo2, Repo3}
RepoPaths == {repo.path : repo \in Repos}

\* A long list of repositories of the name nexus, of which every seventh
\* has the keyword as its description too
ManyRepos == 52
DigitChars == <<"0", "1", "2", "3", "4", "5", "6", "7", "8", "9">>
ManyRepoPath(i) ==
    <<"g", "/", "r">> \o <<DigitChars[(i \div 100) + 1], DigitChars[((i \div 10) % 10) + 1],
                DigitChars[(i % 10) + 1]>>
ManyRepo(i) ==
    Repository(100 + i, <<"n", "e", "x", "u", "s">>, ManyRepoPath(i), IF i % 7 = 0 THEN <<"n", "e", "x", "u", "s">> ELSE <<>>)
ManyRepoList == [i \in 1..ManyRepos |-> ManyRepo(i)]

\* The length of a list of more candidates than a warm-up takes
ManyCandidates == 101

\* The paths of the repositories that are indexed
IndexedPaths == RepoPaths \cup {ManyRepoPath(i) : i \in 1..ManyCandidates}

\* Repository.default_branch, which no repository of the model changes
default_branch == <<"m", "a", "i", "n">>

\* The entries of the repository trees: blobs and one directory
Blob(id, name, path) == [id |-> id, name |-> name, path |-> path, type |-> "blob"]
TreeEntries ==
    {Blob(1, <<"R", "E", "A", "D", "M", "E", ".", "m", "d">>, <<"R", "E", "A", "D", "M", "E", ".", "m", "d">>),
     Blob(2, <<"R", "e", "a", "d", "m", "e", ".", "R", "S", "T">>, <<"d", "o", "c", "s", "/", "R", "e", "a", "d", "m", "e", ".", "R", "S", "T">>),
     Blob(3, <<".", "e", "n", "v">>, <<".", "e", "n", "v">>),
     Blob(4, <<"R", "E", "A", "D", "M", "E", ".", "m", "d">>, <<"s", "e", "c", "r", "e", "t", "s", "/", "R", "E", "A", "D", "M", "E", ".", "m", "d">>),
     Blob(5, <<"R", "E", "A", "D", "M", "E", ".", "p", "d", "f">>, <<"R", "E", "A", "D", "M", "E", ".", "p", "d", "f">>),
     Blob(6, <<"C", "H", "A", "N", "G", "E", "L", "O", "G", ".", "m", "d">>, <<"C", "H", "A", "N", "G", "E", "L", "O", "G", ".", "m", "d">>),
     Blob(7, <<"A", "G", "E", "N", "T", "S", ".", "m", "d">>, <<"A", "G", "E", "N", "T", "S", ".", "m", "d">>),
     Blob(8, <<"C", "L", "A", "U", "D", "E", ".", "m", "d">>, <<"C", "L", "A", "U", "D", "E", ".", "m", "d">>),
     Blob(9, <<"m", "a", "i", "n", ".", "p", "y">>, <<"m", "a", "i", "n", ".", "p", "y">>),
     [id |-> 10, name |-> <<"R", "E", "A", "D", "M", "E">>, path |-> <<"R", "E", "A", "D", "M", "E">>, type |-> "tree"]}

EntryPaths == {entry.path : entry \in TreeEntries}
EntryNames == {entry.name : entry \in TreeEntries}

\* The trees: up to MaxTree entries, each at most once
MaxTree == 2
Trees ==
    {entries \in UNION {[1..n -> TreeEntries] : n \in 0..MaxTree} :
        \A i, j \in 1..Len(entries) : i # j => entries[i] # entries[j]}

\* A body that is a JSON object and not an array, as an error message is:
\* the loop over it meets its keys, which are strings
KeysOfMessage == <<Str(<<"m", "e", "s", "s", "a", "g", "e">>)>>

\* An entry of the body is a JSON object
IsObject(entry) == "tag" \notin DOMAIN entry

\* The paths of the files of a tree
PathsOf(entries) ==
    {entries[i].path : i \in {k \in 1..Len(entries) : /\ IsObject(entries[k])
                                                      /\ entries[k].type = "blob"}}

\* A tree of one entry more than list_tree asks for: directories, and after
\* them the file README.md
DirName(i) ==
    <<"d", DigitChars[(i \div 100) + 1], DigitChars[((i \div 10) % 10) + 1],
      DigitChars[(i % 10) + 1]>>
LongTree ==
    Tabulate(LAMBDA i : [id |-> 100 + i, name |-> DirName(i), path |-> DirName(i),
                         type |-> "tree"],
             1, TreePerPage)
        \o <<Blob(1, <<"R", "E", "A", "D", "M", "E", ".", "m", "d">>, <<"R", "E", "A", "D", "M", "E", ".", "m", "d">>)>>

\* The validation and the classification of the entries of the trees
ValidPaths == {file_path \in EntryPaths \cup {<<>>} : _validate_file_path(file_path)}
DetectedType == [file_name \in EntryNames \cup {<<>>} |-> _detect_doc_type(file_name)]

\* The body of the response to list_tree: the first page of the tree
TreePage(entries) == Prefix(entries, TreePerPage)

\* The answers of the network that the indexer meets
IndexerAnswers == {[answer |-> "ok"], [answer |-> "timeout"]}

\* The text of a file on the server: a heading made of its path
FileText(file_path) == <<"#", " ">> \o file_path

\* The client's calls of the indexer, over the repositories and the files of
\* the trees. list_tree hands over the entries of the body as they are, or
\* gives []: which of the two is found with a body of one entry.
TreeListed ==
    [project_path \in IndexedPaths |->
        [net \in IndexerAnswers |->
            list_tree(project_path, TRUE, net, "array", <<"entry">>).outcome
                = Return(List(<<"entry">>))]]

FileFetched ==
    [project_path \in IndexedPaths |->
        [file_path \in EntryPaths |->
            [net \in IndexerAnswers |->
                get_file_content(project_path, file_path, default_branch, net,
                                 FileText(file_path)).outcome]]]

\* doc_files_by_type before the scan
NoDocFiles == [member \in Range(Members(DocTypeDecl, {})) |-> <<>>]

\* The loop of _find_doc_files over the entries of the tree: a tree of one
\* entry is the step of the loop, a longer one is the loop over its first
\* half and then over the rest. The files found before are looked at first,
\* which has the loop over the first half evaluated before the loop over the
\* rest is entered.
RECURSIVE ScanTree(_, _)
ScanTree(entries, doc_files_by_type) ==
    IF entries = <<>> \/ DOMAIN doc_files_by_type = {} THEN doc_files_by_type
    ELSE IF Len(entries) > 1
    THEN ScanTree(SubSeq(entries, (Len(entries) \div 2) + 1, Len(entries)),
                  ScanTree(SubSeq(entries, 1, Len(entries) \div 2), doc_files_by_type))
    ELSE LET entry == entries[1]
             file_path == DictGet(entry, "path", <<>>)
             file_name == DictGet(entry, "name", <<>>)
             doc_type == DetectedType[file_name]
         IN  IF DictGet(entry, "type", "") # "blob" THEN doc_files_by_type
             ELSE IF file_path \notin ValidPaths THEN doc_files_by_type
             ELSE IF doc_type = NoneVal THEN doc_files_by_type
             ELSE [doc_files_by_type EXCEPT ![doc_type.value] =
                      Append(@, [id |-> DictGet(entry, "id", 0), name |-> file_name,
                                 path |-> file_path])]

\* _find_doc_files(repo): the tree on the server is entries, the network
\* answers the request for it with net
_find_doc_files(repo, entries, net) ==
    LET tree_listed == IF TreeListed[repo.path][net] THEN TreePage(entries) ELSE <<>>
    IN  ScanTree(tree_listed, NoDocFiles)

\* _find_doc_files raises AttributeError: an entry of the tree listed is no
\* object and has no get
RaisesOnEntry(repo, entries, net) ==
    /\ TreeListed[repo.path][net]
    /\ \E i \in 1..Len(TreePage(entries)) : ~IsObject(TreePage(entries)[i])

\* _select_doc_files: the selected type and the selected files
_select_doc_files(doc_files_by_type) ==
    LET filled == {i \in 1..Len(ByPriority) : doc_files_by_type[ByPriority[i]] # <<>>}
    IN  IF filled = {} THEN <<NoneVal, <<>>>>
        ELSE LET doc_type == ByPriority[CHOOSE i \in filled : \A j \in filled : i <= j]
             IN  <<Member(doc_type), doc_files_by_type[doc_type]>>

\* _create_doc_file at time t
_create_doc_file(file_meta, content, doc_type, ref, t) ==
    DocFile(file_meta.path, file_meta.name, doc_type, content, Utf8Len(content), t, ref)

\* DocFile.is_fresh at time t
is_fresh(doc_file_cached, ttl_seconds, t) == t - doc_file_cached.cached_at < ttl_seconds

\* A call of the client by the indexer
ClientCall(op, project_path, file_path) ==
    [file_path |-> file_path, op |-> op, project_path |-> project_path]

\* The loop of _build_index_from_files: the files of the index and the calls
\* of get_file_content, after the files selected
RECURSIVE BuildFiles(_, _, _, _, _, _)
BuildFiles(repo, selected_type, selected_files, cached, answers, t) ==
    IF selected_files = <<>> THEN [calls |-> <<>>, files |-> <<>>]
    ELSE LET file_meta == selected_files[Len(selected_files)]
             before == BuildFiles(repo, selected_type,
                                  SubSeq(selected_files, 1, Len(selected_files) - 1),
                                  cached, answers, t)
             file_path == file_meta.path
             content == FileFetched[repo.path][file_path][answers[file_path]]
         IN  IF /\ cached # NoneVal
                /\ file_path \in DOMAIN cached.files
                /\ is_fresh(cached.files[file_path], doc_ttl, t)
             THEN [calls |-> before.calls,
                   files |-> (file_path :> cached.files[file_path]) @@ before.files]
             ELSE [calls |-> Append(before.calls,
                                    ClientCall("get_file_content", repo.path, file_path)),
                   files |-> IF content.value = NoneVal THEN before.files
                             ELSE (file_path :> _create_doc_file(file_meta, content.value.text,
                                                                 selected_type, default_branch, t))
                                      @@ before.files]

\* _build_index_from_files at time t: the index and the calls of the client
_build_index_from_files(repo, selected_type, selected_files, cached, answers, t) ==
    LET Indexed(built) ==
            [calls |-> built.calls,
             index |-> DocIndex(repo.path, selected_type, built.files,
                                IF selected_files # <<>> THEN Str(selected_files[1].path)
                                ELSE NoneVal)]
    IN  Indexed(BuildFiles(repo, selected_type, selected_files, cached, answers, t))

\* _get_cached_index: the cached index and found_in_cache
_get_cached_index(cache, repo_path, force_refresh) ==
    IF force_refresh THEN <<NoneVal, FALSE>>
    ELSE LET cached == get_doc_index(cache, repo_path).value
         IN  IF cached # NoneVal THEN <<cached, TRUE>> ELSE <<NoneVal, FALSE>>

\* index_repository(repo, force_refresh) at time t, over the documentation
\* cache: what it returns or raises, the calls of the client, the cache
\* afterwards
index_repository(repo, force_refresh, cache, entries, net, answers, t) ==
    LET listing == <<ClientCall("list_tree", repo.path, <<>>)>>
        \* the index built: saved to the cache if it has files
        Saved(built) ==
            IF DOMAIN built.index.files # {}
            THEN [_doc_cache |-> (repo.path :> built.index) @@ cache,
                  calls |-> listing \o built.calls,
                  outcome |-> Return(built.index)]
            ELSE [_doc_cache |-> cache, calls |-> listing \o built.calls,
                  outcome |-> Return(NoneVal)]
        \* found is (cached, found_in_cache); selected is (selected_type,
        \* selected_files)
        Indexed(found, selected) ==
            IF found[2] /\ found[1] # NoneVal
            THEN [_doc_cache |-> cache, calls |-> <<>>, outcome |-> Return(found[1])]
            ELSE IF RaisesOnEntry(repo, entries, net)
            THEN [_doc_cache |-> cache, calls |-> listing, outcome |-> Raise("AttributeError")]
            ELSE IF selected[1] = NoneVal
            THEN [_doc_cache |-> cache, calls |-> listing, outcome |-> Return(NoneVal)]
            ELSE Saved(_build_index_from_files(repo, selected[1].value, selected[2],
                                               found[1], answers, t))
    IN  Indexed(_get_cached_index(cache, repo.path, force_refresh),
                _select_doc_files(_find_doc_files(repo, entries, net)))

\* A step of index_repositories: a call of index_repository or of save
Step(op, repo_path) == [op |-> op, repo_path |-> repo_path]

\* index_repositories before its loop: the documentation cache, the calls of
\* the client, the calls of the progress callback, stats, the steps taken
BeforeLoop(cache) ==
    [_doc_cache |-> cache, calls |-> <<>>, progress |-> <<>>,
     stats |-> [errors |-> 0, indexed |-> 0, processed |-> 0, skipped |-> 0,
                total_files |-> 0],
     steps |-> <<>>]

\* What the body of the loop of index_repositories makes of r, which
\* index_repository(repo) gives for repositories[i] after the repositories
\* before it
Counted(repo, i, total, progress_callback, before, r) ==
    IF r.outcome.kind = "raise"
    THEN [before EXCEPT
             !.calls = @ \o r.calls,
             !.stats.errors = @ + 1,
             !.steps = Append(@, Step("index_repository", repo.path))]
    ELSE [_doc_cache |-> r._doc_cache,
          calls |-> before.calls \o r.calls,
          progress |-> IF progress_callback /\ i % 10 = 0
                       THEN Append(before.progress, <<i, total>>)
                       ELSE before.progress,
          stats |-> IF r.outcome.value # NoneVal
                    THEN [before.stats EXCEPT
                             !.indexed = @ + 1,
                             !.total_files = @ + Cardinality(DOMAIN r.outcome.value.files),
                             !.processed = @ + 1]
                    ELSE [before.stats EXCEPT !.skipped = @ + 1, !.processed = @ + 1],
          steps |-> Append(before.steps, Step("index_repository", repo.path))]

\* The body of the loop without its except clause: after an exception no
\* repository is attempted
IndexOne_stopping(repo, i, total, progress_callback, before, trees, answers, t) ==
    IF before.stats.errors > 0 THEN before
    ELSE Counted(repo, i, total, progress_callback, before,
                 index_repository(repo, FALSE, before._doc_cache, trees[repo.path],
                                  answers[repo.path],
                                  [file_path \in PathsOf(trees[repo.path]) |->
                                      answers[repo.path]], t))

\* The body of the loop of index_repositories for repositories[i], which is
\* repo, after the repositories before it. answers gives, for each
\* repository, the network's answer to the requests made for it.
IndexOne(repo, i, total, progress_callback, before, trees, answers, t) ==
    Counted(repo, i, total, progress_callback, before,
            index_repository(repo, FALSE, before._doc_cache, trees[repo.path],
                             answers[repo.path],
                             [file_path \in PathsOf(trees[repo.path]) |->
                                 answers[repo.path]], t))

\* The loop of index_repositories over repositories[lo] to repositories[hi],
\* in list order: the loop over the first half of them and then over the rest.
\* The steps taken before are looked at first, which has the loop over the
\* first half evaluated before the loop over the rest is entered.
RECURSIVE IndexEach(_, _, _, _, _, _, _, _)
IndexEach(repositories, lo, hi, progress_callback, before, trees, answers, t) ==
    IF lo > hi \/ Len(before.steps) < 0 THEN before
    ELSE IF lo = hi
    THEN IndexOne(repositories[lo], lo, Len(repositories), progress_callback, before,
                  trees, answers, t)
    ELSE IndexEach(repositories, ((lo + hi) \div 2) + 1, hi, progress_callback,
                   IndexEach(repositories, lo, (lo + hi) \div 2, progress_callback,
                             before, trees, answers, t),
                   trees, answers, t)

\* index_repositories(repositories, progress_callback) at time t, over the
\* manager's caches and files: the loop, then the cache's save(). Of the
\* progress callback it matters whether there is one.
index_repositories(repositories, progress_callback, manager, trees, answers, t) ==
    LET Saved(each) ==
            [calls |-> each.calls,
             manager |-> [manager EXCEPT
                             !._doc_cache = each._doc_cache,
                             !.doc_file = _save_documentation(each._doc_cache, t, @),
                             !.repo_file = _save_repositories(manager._repo_cache, t, @)],
             outcome |-> Return(each.stats),
             progress |-> each.progress,
             stats |-> each.stats,
             steps |-> Append(each.steps, Step("save", <<>>))]
    IN  Saved(IndexEach(repositories, 1, Len(repositories), progress_callback,
                        BeforeLoop(manager._doc_cache), trees, answers, t))

(***************************************************************************)
(* The indexer's operations as actions, over repositories whose trees are  *)
(* chosen at the start.                                                    *)
(***************************************************************************)
NoIndexing == [op |-> "none"]

\* No indexer is at work
IndexerIdle ==
    /\ tree = [repo_path \in RepoPaths |-> <<>>]
    /\ indexed = NoIndexing

\* The repositories on the server: any tree in the first, the long tree
\* among them, a README in the others
IndexerStart ==
    /\ tree \in {[repo_path \in RepoPaths |->
                     IF repo_path = Repo1.path THEN entries
                     ELSE <<Blob(1, <<"R", "E", "A", "D", "M", "E", ".", "m", "d">>, <<"R", "E", "A", "D", "M", "E", ".", "m", "d">>)>>] :
                 entries \in Trees \cup {LongTree}}
    /\ indexed = NoIndexing

IndexRepository ==
    \E repo \in Repos, force_refresh \in BOOLEAN, net \in IndexerAnswers :
      \E answers \in [PathsOf(tree[repo.path]) -> IndexerAnswers] :
        \E r \in {index_repository(repo, force_refresh, _doc_cache, tree[repo.path], net,
                                   answers, now)} :
            /\ indexed' = [args |-> [force_refresh |-> force_refresh, repo_path |-> repo.path],
                           calls |-> r.calls,
                           network |-> [files |-> answers, listing |-> net],
                           op |-> "index_repository",
                           outcome |-> r.outcome, timestamp |-> now]
            /\ _doc_cache' = r._doc_cache
            /\ UNCHANGED <<tree, now, diskVars, _repo_cache, _repo_cache_time, _doc_cache_time,
                           last_set, reply, clientVars, pagingVars, searchVars,
                           peerVars>>

\* The length of the longest list that is indexed in a batch
MaxBatch == 21
BatchPaths == {ManyRepoPath(i) : i \in 1..MaxBatch}

\* The repositories of a batch on the server: the listing of every bad-th
\* is no array, every third of the others is empty, the rest hold a README
BatchTree(bad) ==
    [repo_path \in BatchPaths |->
        LET i == CHOOSE k \in 1..MaxBatch : ManyRepoPath(k) = repo_path
        IN  IF bad > 0 /\ i % bad = 0 THEN KeysOfMessage
            ELSE IF i % 3 = 0 THEN <<>>
            ELSE <<Blob(1, <<"R", "E", "A", "D", "M", "E", ".", "m", "d">>, <<"R", "E", "A", "D", "M", "E", ".", "m", "d">>)>>]

\* No repository is bad, all are, every seventh, every tenth
BadEvery == {0, 1, 7, 10}

BatchStart ==
    /\ tree \in {BatchTree(bad) : bad \in BadEvery}
    /\ indexed = NoIndexing

\* index_repositories over the first n repositories of the long list, with a
\* progress callback or without one
IndexRepositories ==
    \E n \in 0..MaxBatch, progress_callback \in BOOLEAN, net \in IndexerAnswers :
        \E r \in {index_repositories(Prefix(ManyRepoList, n), progress_callback,
                      Manager(_repo_cache, _repo_cache_time, _doc_cache, _doc_cache_time,
                              repo_file, doc_file),
                      tree, [repo_path \in BatchPaths |-> net], now)} :
            /\ indexed' = [args |-> [progress_callback |-> progress_callback,
                                     repositories |-> Prefix(ManyRepoList, n)],
                           calls |-> r.calls,
                           network |-> [listing |-> net],
                           op |-> "index_repositories",
                           outcome |-> r.outcome, progress |-> r.progress,
                           steps |-> r.steps, timestamp |-> now]
            /\ _repo_cache' = r.manager._repo_cache
            /\ _repo_cache_time' = r.manager._repo_cache_time
            /\ _doc_cache' = r.manager._doc_cache
            /\ _doc_cache_time' = r.manager._doc_cache_time
            /\ repo_file' = r.manager.repo_file
            /\ doc_file' = r.manager.doc_file
            /\ UNCHANGED <<tree, now, last_set, reply, clientVars, pagingVars, searchVars,
                           peerVars>>

(***************************************************************************)
(* GitLabSearchEngine (search.py)                                          *)
(***************************************************************************)
METADATA_WEIGHTS == [description |-> 2, name |-> 3, path |-> 1]

EXACT_MATCH_BONUS == 10
WORD_MATCH_BONUS == 10
SUBSTRING_MATCH == 1

\* The characters that \s matches and str.strip() removes
Whitespace == {" ", "\t", "\n", "\r", "\f"}

\* str.strip()
RECURSIVE strip(_)
strip(s) ==
    IF s = <<>> THEN s
    ELSE IF s[1] \in Whitespace THEN strip(Tail(s))
    ELSE IF s[Len(s)] \in Whitespace THEN strip(SubSeq(s, 1, Len(s) - 1))
    ELSE s

\* re.split(r"[\s,;]+", s): the pieces between the runs of separators, the
\* empty pieces at the ends included
RECURSIVE SplitFrom(_, _, _)
SplitFrom(s, i, piece) ==
    LET Separator(k) == s[k] \in Whitespace \cup {",", ";"}
    IN  IF i > Len(s) THEN <<piece>>
        ELSE IF ~Separator(i) THEN SplitFrom(s, i + 1, Append(piece, s[i]))
        ELSE IF i < Len(s) /\ Separator(i + 1) THEN SplitFrom(s, i + 1, piece)
        ELSE <<piece>> \o SplitFrom(s, i + 1, <<>>)

\* [k.strip() for k in pieces if k.strip()]
RECURSIVE StrippedPieces(_)
StrippedPieces(pieces) ==
    IF pieces = <<>> THEN <<>>
    ELSE (IF strip(Head(pieces)) # <<>> THEN <<strip(Head(pieces))>> ELSE <<>>)
             \o StrippedPieces(Tail(pieces))

\* _extract_keywords
_extract_keywords(query) ==
    LET query_lower == Lower(query)
        keywords == StrippedPieces(SplitFrom(query_lower, 1, <<>>))
    IN  IF keywords # <<>> THEN keywords ELSE <<query_lower>>

\* The inner loop of _score_metadata_match: the score that the keywords add
\* for one field
RECURSIVE FieldScore(_, _, _)
FieldScore(field_value, weight, keywords) ==
    IF keywords = <<>> THEN 0
    ELSE LET keyword == Head(keywords)
         IN  (IF keyword = field_value THEN EXACT_MATCH_BONUS * weight
              ELSE IF IsSubstr(keyword, field_value) THEN SUBSTRING_MATCH * weight
              ELSE 0)
                 + FieldScore(field_value, weight, Tail(keywords))

\* _score_metadata_match with every field of weight 1
_score_metadata_match_unweighted(repo, keywords) ==
    FieldScore(Lower(repo.name), 1, keywords)
        + FieldScore(Lower(repo.description), 1, keywords)
        + FieldScore(Lower(repo.path), 1, keywords)

\* _score_metadata_match: the score
_score_metadata_match(repo, keywords) ==
    FieldScore(Lower(repo.name), METADATA_WEIGHTS.name, keywords)
        + FieldScore(Lower(repo.description), METADATA_WEIGHTS.description, keywords)
        + FieldScore(Lower(repo.path), METADATA_WEIGHTS.path, keywords)

\* \w matches the character
IsWordChar(c) ==
    \/ c \in UpperChars
    \/ c \in Range(LOWER)
    \/ c \in {"0", "1", "2", "3", "4", "5", "6", "7", "8", "9", "_"}

\* \b matches at position i of s
IsBoundary(s, i) ==
    (i > 1 /\ IsWordChar(s[i - 1])) # (i <= Len(s) /\ IsWordChar(s[i]))

\* re.search(r"\b" + re.escape(keyword) + r"\b", s) finds a match
WordMatch(keyword, s) ==
    \E i \in Anywhere(s) :
        /\ MatchAt(keyword, s, i)
        /\ IsBoundary(s, i)
        /\ IsBoundary(s, i + Len(keyword))

\* The inner loop of _search_content: the score that the keywords add for
\* one file
RECURSIVE ContentScore(_, _, _)
ContentScore(content_lower, priority, keywords) ==
    IF keywords = <<>> THEN 0
    ELSE LET keyword == Head(keywords)
         IN  (IF ~IsSubstr(keyword, content_lower) THEN 0
              ELSE IF WordMatch(keyword, content_lower) THEN WORD_MATCH_BONUS * priority
              ELSE SUBSTRING_MATCH * priority)
                 + ContentScore(content_lower, priority, Tail(keywords))

\* The projects that the server lists, as it gives them; a description may
\* be null
ServerProjects ==
    <<[description |-> Str(<<"Z", "u", "l", "i", "p", " ", "b", "o", "t", "s">>), id |-> 1, name |-> <<"n", "e", "x", "u", "s">>,
       path_with_namespace |-> <<"g", "/", "n", "e", "x", "u", "s">>],
      [description |-> NoneVal, id |-> 2, name |-> <<"d", "o", "c", "s">>,
       path_with_namespace |-> <<"g", "/", "d", "o", "c", "s">>],
      [id |-> 3, name |-> <<"M", "e", "s", "s", "a", "g", "e">>, path_with_namespace |-> <<"g", "/", "M", "e", "s", "s", "a", "g", "e">>]>>

\* Repository.from_gitlab_api
from_gitlab_api(data) ==
    LET description == DictGet(data, "description", NoneVal)
    IN  Repository(DictGet(data, "id", 0), DictGet(data, "name", <<>>),
                   DictGet(data, "path_with_namespace", <<>>),
                   IF description.tag = "str" THEN description.text ELSE <<>>)

\* The servers that a search meets: one page with the projects above, whose
\* request is answered or times out
SearchServers ==
    {[fault |-> NoFault, fault_page |-> 0, header |-> [tag |-> "absent"],
      malformed |-> FALSE, sizes |-> <<Len(ServerProjects)>>],
     [fault |-> [answer |-> "timeout"], fault_page |-> 1, header |-> [tag |-> "absent"],
      malformed |-> FALSE, sizes |-> <<Len(ServerProjects)>>]}

\* A server that has no projects
EmptyServer ==
    [fault |-> NoFault, fault_page |-> 0, header |-> [tag |-> "absent"],
     malformed |-> FALSE, sizes |-> <<0>>]

\* The servers that the tools meet
ToolServers == SearchServers \cup {EmptyServer}

\* What get_all_repositories returns from each of them: the Repository of
\* every entry that it has collected
FetchedRepositories ==
    [sv \in ToolServers |->
        LET all_repos == get_all_repositories(sv).outcome.value.items
        IN  [i \in 1..Len(all_repos) |-> from_gitlab_api(ServerProjects[all_repos[i]])]]

\* The queries, the values of top_k
Queries ==
    {<<"n", "e", "x", "u", "s">>,
     <<"b", "o", "t", "s", " ", "n", "o", "t", "e", "s">>,
     <<"r", "e", "a", "d", "m", "e">>,
     <<"z", "z", "z">>,
     <<>>,
     <<" ", "\t">>,
     <<"D", "o", "c", "s", ",", " ", "g">>,
     <<",", ";">>}
TopKs == {0, 2}

\* The repositories of a ranking: of the keyword nexus one has it as its
\* name, one in its name, one in its description, one in its path
RankRepoB == Repository(12, <<"n", "e", "x", "u", "s", "-", "a", "p", "i">>, <<"g", "/", "a", "p", "i">>, <<>>)
RankRepoC == Repository(13, <<"w", "e", "b">>, <<"g", "/", "w", "e", "b">>, <<"N", "e", "x", "u", "s", " ", "s", "i", "t", "e">>)
RankRepoD == Repository(14, <<"l", "i", "b">>, <<"g", "/", "n", "e", "x", "u", "s", "-", "l", "i", "b">>, <<>>)

RankingRepoLists ==
    {<<Repo1, RankRepoB, RankRepoC, RankRepoD>>,
     <<RankRepoD, RankRepoC, RankRepoB, Repo1>>,
     <<RankRepoC, Repo2, RankRepoD>>,
     <<Repo1, Repo2>>,
     ManyRepoList}

\* The index of one file of a repository
RankIndex(repo_path, doc_type, file_path, content) ==
    DocIndex(repo_path, DocTypeOf(doc_type),
             file_path :> DocFile(file_path, file_path, DocTypeOf(doc_type), content,
                                  Len(content), StartTime - 1, <<"m", "a", "i", "n">>),
             Str(file_path))

\* The documentation caches of a ranking
RankingDocCaches ==
    {(Repo1.path :> Index1) @@ (Repo2.path :> Index2),
     (RankRepoC.path :> RankIndex(RankRepoC.path, "CHANGELOG", <<"C", "H", "A", "N", "G", "E", "L", "O", "G", ".", "m", "d">>,
                                  <<"n", "e", "x", "u", "s", " ", "n", "o", "t", "e", "s">>))
         @@ (RankRepoD.path :> RankIndex(RankRepoD.path, "README", <<"R", "E", "A", "D", "M", "E", ".", "m", "d">>,
                                         <<"N", "e", "x", "u", "s">>))
         @@ (ManyRepoPath(9) :> RankIndex(ManyRepoPath(9), "README", <<"R", "E", "A", "D", "M", "E", ".", "m", "d">>,
                                          <<"N", "e", "x", "u", "s">>))
         @@ (ManyRepoPath(ManyRepos) :> RankIndex(ManyRepoPath(ManyRepos), "README",
                                                  <<"R", "E", "A", "D", "M", "E", ".", "m", "d">>, <<"N", "e", "x", "u", "s">>)),
     (RankRepoB.path :> RankIndex(RankRepoB.path, "ENTRY", <<"m", "a", "i", "n", ".", "p", "y">>,
                                  <<"i", "m", "p", "o", "r", "t", " ", "n", "e", "x", "u", "s", "_", "b", "o", "t", "s">>))}

\* The queries and the values of top_k of a ranking
RankingQueries == {<<"n", "e", "x", "u", "s">>, <<"b", "o", "t", "s", " ", "n", "o", "t", "e", "s">>, <<"D", "o", "c", "s", ",", " ", "g">>}
RankingTopKs == {0 - 1, 0, 1, 2, 50, 51, 100}

\* A list of more candidates than a warm-up takes
ManyCandidateList == Tabulate(LAMBDA i : ManyRepo(i), 1, ManyCandidates)

\* The lists of repositories that a warm-up meets
WarmupRepoLists == {<<>>, <<Repo2>>, <<Repo1, Repo2>>, ManyCandidateList}

\* The repositories and the file contents that a search meets
KnownRepos ==
    Repos \cup UNION {Range(repositories) :
                         repositories \in RepoLists \cup RankingRepoLists \cup WarmupRepoLists}
KnownContents ==
    {FileText(file_path) : file_path \in EntryPaths}
        \cup UNION {{index.files[path].content : path \in DOMAIN index.files} :
                       index \in DocIndexes}
        \cup UNION {UNION {{cache[repo_path].files[path].content :
                               path \in DOMAIN cache[repo_path].files} :
                              repo_path \in DOMAIN cache} :
                       cache \in RankingDocCaches}

\* The keywords of the queries, and the scores of the repositories and of
\* the file contents for them
KeywordLists == {_extract_keywords(strip(query)) : query \in Queries}
MetadataScores ==
    [repo \in KnownRepos |->
        [keywords \in KeywordLists |-> _score_metadata_match(repo, keywords)]]
ContentScores ==
    [content \in KnownContents |->
        [priority \in Range(ByPriority) |->
            [keywords \in KeywordLists |-> ContentScore(Lower(content), priority, keywords)]]]

\* _search_content: the score
_search_content(index, keywords) ==
    LET priority == index.doc_type
        RECURSIVE OverFiles(_)
        OverFiles(paths) ==
            IF paths = {} THEN 0
            ELSE LET file_path == CHOOSE path \in paths : TRUE
                 IN  ContentScores[index.files[file_path].content][priority][keywords]
                         + OverFiles(paths \ {file_path})
    IN  OverFiles(DOMAIN index.files)

\* _get_repositories at time t
_get_repositories(manager, sv, t) ==
    LET \* repos is what the cache gives, fetched what the client gives
        Got(repos, fetched) ==
            IF repos.kind = "raise"
            THEN [calls |-> <<"get_repositories">>, manager |-> manager, outcome |-> repos]
            ELSE IF repos.value = NoneVal
            THEN [calls |-> <<"get_repositories", "get_all_repositories", "set_repositories">>,
                  manager |-> [manager EXCEPT
                                  !._repo_cache = fetched,
                                  !._repo_cache_time = Num(t),
                                  !.repo_file = _save_repositories(fetched, t, @)],
                  outcome |-> Return(fetched)]
            ELSE [calls |-> <<"get_repositories">>, manager |-> manager, outcome |-> repos]
    IN  Got(get_repositories(manager._repo_cache, manager._repo_cache_time, t),
            List(FetchedRepositories[sv]))

\* The loop of _filter_candidates_by_metadata: each repository with its score
Scored(repos, keywords) ==
    Tabulate(LAMBDA i : [repo |-> repos[i], score |-> MetadataScores[repos[i]][keywords]],
             1, Len(repos))

\* _filter_candidates_by_metadata without its test of the score
_filter_candidates_unfiltered(repos, keywords) == Scored(repos, keywords)

\* _filter_candidates_by_metadata
_filter_candidates_by_metadata(repos, keywords) ==
    SelectSeq(Scored(repos, keywords), LAMBDA item : item.score > 0)

\* list.sort(key=score, reverse=True): of two items of one score the
\* earlier stays the earlier. An item's place is one more than the number of
\* the items that come before it.
SortByScore(items) ==
    LET Placed(place) ==
            Tabulate(LAMBDA p : items[CHOOSE i \in 1..Len(items) : place[i] = p],
                     1, Len(items))
    IN  Placed(Tabulate(LAMBDA i : Cardinality({j \in 1..Len(items) :
                                                   \/ items[j].score > items[i].score
                                                   \/ /\ items[j].score = items[i].score
                                                      /\ j < i}) + 1,
                        1, Len(items)))

\* A SearchResult; of its fields repository, score and doc_types_found are kept
SearchResult(repository, score, doc_types_found) ==
    [doc_types_found |-> doc_types_found, repository |-> repository, score |-> score]

\* SearchResult.to_dict
to_dict(result) ==
    [description |-> result.repository.description,
     doc_types_found |-> result.doc_types_found,
     id |-> result.repository.id,
     name |-> result.repository.name,
     path_namespace |-> result.repository.path,
     score |-> result.score]

\* The loop of _build_search_results
BuildResults(candidates, keywords, cache) ==
    LET Result(item, index) ==
            IF index # NoneVal
            THEN SearchResult(item.repo, item.score + _search_content(index, keywords),
                              <<DocTypeName(index.doc_type)>>)
            ELSE SearchResult(item.repo, item.score, <<>>)
    IN  Tabulate(LAMBDA i : Result(candidates[i],
                                   get_doc_index(cache, candidates[i].repo.path).value),
                 1, Len(candidates))

\* _build_search_results without its sort by the total score
_build_search_results_unsorted(candidates, keywords, top_k, cache) ==
    Prefix(BuildResults(Prefix(candidates, top_k * 3), keywords, cache), top_k)

\* _build_search_results
_build_search_results(candidates, keywords, top_k, cache) ==
    Prefix(SortByScore(BuildResults(Prefix(candidates, top_k * 3), keywords, cache)), top_k)

\* The warm-up over the repositories that it takes, at time t: the calls of
\* the cache and the indexer, the batch indexing that it has run (the list
\* passed to index_repositories and the calls of the client), the manager
\* afterwards
Warmup(warmup_repos, warm_cache, manager, trees, answers, t) ==
    LET Run(batch) ==
            [calls |-> <<"is_doc_cache_valid", "index_repositories">>,
             indexing |-> <<[calls |-> batch.calls, repositories |-> warmup_repos]>>,
             manager |-> batch.manager,
             outcome |-> Return(NoneVal)]
        Warmed(valid) ==
            IF valid.kind = "raise"
            THEN [calls |-> <<"is_doc_cache_valid">>, indexing |-> <<>>,
                  manager |-> manager, outcome |-> valid]
            ELSE IF valid.value.value
            THEN [calls |-> <<"is_doc_cache_valid">>, indexing |-> <<>>,
                  manager |-> manager, outcome |-> Return(NoneVal)]
            ELSE Run(index_repositories(warmup_repos, FALSE, manager, trees, answers, t))
    IN  IF ~warm_cache
        THEN [calls |-> <<>>, indexing |-> <<>>, manager |-> manager,
              outcome |-> Return(NoneVal)]
        ELSE Warmed(is_doc_cache_valid(manager._doc_cache, manager._doc_cache_time, t))

\* _warmup_cache_if_needed that takes every candidate
_warmup_cache_if_needed_uncapped(candidates, warm_cache, manager, trees, answers, t) ==
    Warmup(MapSeq(LAMBDA c : c.repo, candidates), warm_cache, manager, trees, answers, t)

\* _warmup_cache_if_needed: the warm-up over candidates[:100]
_warmup_cache_if_needed(candidates, warm_cache, manager, trees, answers, t) ==
    Warmup(MapSeq(LAMBDA c : c.repo, Prefix(candidates, 100)), warm_cache, manager, trees,
           answers, t)

\* max(1, min(50, top_k))
ClampTopK(top_k) ==
    LET least == IF top_k < 50 THEN top_k ELSE 50
    IN  IF least > 1 THEN least ELSE 1

\* search(query, top_k, warm_cache) after the test of the query: steps 1 to
\* 4 at time t. What it returns or raises, the calls of the cache, the
\* client and the indexer, the manager afterwards
search_stripped(stripped, top_k, warm_cache, manager, sv, trees, answers, t) ==
    LET \* step 4, after the warm-up
        Built(got, candidates, keywords, warmed) ==
            IF warmed.outcome.kind = "raise"
            THEN [calls |-> got.calls \o warmed.calls, indexing |-> warmed.indexing,
                  manager |-> warmed.manager, outcome |-> warmed.outcome]
            ELSE [calls |-> got.calls \o warmed.calls \o <<"get_doc_index">>,
                  indexing |-> warmed.indexing,
                  manager |-> warmed.manager,
                  outcome |-> Return(List(_build_search_results(
                                  candidates, keywords, ClampTopK(top_k),
                                  warmed.manager._doc_cache)))]
        \* step 3, over the candidates sorted
        Sorted(got, candidates, keywords) ==
            Built(got, candidates, keywords,
                  _warmup_cache_if_needed(candidates, warm_cache, got.manager, trees,
                                          answers, t))
        \* after step 2
        Filtered(got, candidates, keywords) ==
            IF candidates = <<>>
            THEN [calls |-> got.calls, indexing |-> <<>>, manager |-> got.manager,
                  outcome |-> Return(List(<<>>))]
            ELSE Sorted(got, SortByScore(candidates), keywords)
        \* after step 1
        Fetched(got, keywords) ==
            IF got.outcome.kind = "raise"
            THEN [calls |-> got.calls, indexing |-> <<>>, manager |-> got.manager,
                  outcome |-> got.outcome]
            ELSE IF got.outcome.value = NoneVal \/ got.outcome.value.items = <<>>
            THEN [calls |-> got.calls, indexing |-> <<>>, manager |-> got.manager,
                  outcome |-> Return(List(<<>>))]
            ELSE Filtered(got,
                          _filter_candidates_by_metadata(got.outcome.value.items, keywords),
                          keywords)
    IN  Fetched(_get_repositories(manager, sv, t), _extract_keywords(stripped))

\* search without the test of the stripped query
search_unguarded(query, top_k, warm_cache, manager, sv, trees, answers, t) ==
    search_stripped(strip(query), top_k, warm_cache, manager, sv, trees, answers, t)

\* search(query, top_k, warm_cache) at time t
search(query, top_k, warm_cache, manager, sv, trees, answers, t) ==
    IF strip(query) = <<>>
    THEN [calls |-> <<>>, indexing |-> <<>>, manager |-> manager,
          outcome |-> Return(List(<<>>))]
    ELSE search_stripped(strip(query), top_k, warm_cache, manager, sv, trees, answers, t)

\* search_repositories(query, top_k, warm_cache) at time t
search_repositories(query, top_k, warm_cache, manager, sv, trees, answers, t) ==
    LET Answered(searching) ==
            [calls |-> searching.calls,
             indexing |-> searching.indexing,
             manager |-> searching.manager,
             outcome |->
                 IF searching.outcome.kind = "raise"
                 THEN Return([error |-> searching.outcome.exc, query |-> query,
                              success |-> FALSE])
                 ELSE Return([count |-> Len(searching.outcome.value.items),
                              method |-> "metadata+content",
                              query |-> query,
                              repositories |->
                                  [i \in 1..Len(searching.outcome.value.items) |->
                                      to_dict(searching.outcome.value.items[i])],
                              success |-> TRUE]),
             results |-> searching.outcome]
    IN  Answered(search(query, top_k, warm_cache, manager, sv, trees, answers, t))

(***************************************************************************)
(* The search engine's operation as an action, over a manager constructed  *)
(* on the cache files that an earlier manager has left.                    *)
(***************************************************************************)
NoSearch == [op |-> "none"]

\* No search engine is at work
SearchIdle == searched = NoSearch

\* The trees of the repositories that are searched
SearchTrees ==
    [repo_path \in RepoPaths |->
        IF repo_path = Repo1.path
        THEN <<Blob(1, <<"R", "E", "A", "D", "M", "E", ".", "m", "d">>, <<"R", "E", "A", "D", "M", "E", ".", "m", "d">>), Blob(6, <<"C", "H", "A", "N", "G", "E", "L", "O", "G", ".", "m", "d">>, <<"C", "H", "A", "N", "G", "E", "L", "O", "G", ".", "m", "d">>)>>
        ELSE IF repo_path = Repo2.path THEN <<Blob(8, <<"C", "L", "A", "U", "D", "E", ".", "m", "d">>, <<"C", "L", "A", "U", "D", "E", ".", "m", "d">>)>>
        ELSE <<Blob(1, <<"R", "E", "A", "D", "M", "E", ".", "m", "d">>, <<"R", "E", "A", "D", "M", "E", ".", "m", "d">>)>>]

\* The answers of the network to the requests of a warm-up: every request
\* answered, none, or all but those for the first repository
WarmupAnswers ==
    {[repo_path \in RepoPaths |-> net] : net \in IndexerAnswers}
        \cup {[repo_path \in RepoPaths |->
                  IF repo_path = Repo1.path THEN [answer |-> "timeout"] ELSE [answer |-> "ok"]]}

\* The cache files that a search finds: none, or those that a manager has
\* written, a TTL ago or a moment ago
SearchRepoFiles ==
    {Missing} \cup {_save_repositories(List(repositories), t, Missing) :
                       repositories \in {<<>>, <<Repo1, Repo2>>},
                       t \in {StartTime - repo_ttl, StartTime - 1}}
SearchDocFiles ==
    {Missing} \cup {_save_documentation((Repo1.path :> Index1) @@ (Repo2.path :> Index2),
                                        t, Missing) :
                       t \in {StartTime - doc_ttl, StartTime - 1}}

\* A manager constructed over the files that a manager has written, if any
SearchStart ==
    /\ now = StartTime
    /\ repo_file \in SearchRepoFiles
    /\ doc_file \in SearchDocFiles
    /\ Loaded
    /\ last_set = NeverSet
    /\ reply = Reply("__init__", <<>>, Return(NoneVal), now)
    /\ tree = SearchTrees
    /\ indexed = NoIndexing
    /\ searched = NoSearch
    /\ peer = NoPeer

SearchRepositories ==
    \E query \in Queries, top_k \in TopKs, warm_cache \in BOOLEAN,
       sv \in SearchServers, answers \in WarmupAnswers :
        \E r \in {search_repositories(query, top_k, warm_cache,
                      Manager(_repo_cache, _repo_cache_time, _doc_cache, _doc_cache_time,
                              repo_file, doc_file),
                      sv, tree, answers, now)} :
            /\ searched' = [args |-> [query |-> query, top_k |-> top_k,
                                      warm_cache |-> warm_cache],
                            calls |-> r.calls, indexing |-> r.indexing,
                            op |-> "search_repositories",
                            outcome |-> r.outcome, results |-> r.results,
                            timestamp |-> now]
            /\ _repo_cache' = r.manager._repo_cache
            /\ _repo_cache_time' = r.manager._repo_cache_time
            /\ _doc_cache' = r.manager._doc_cache
            /\ _doc_cache_time' = r.manager._doc_cache_time
            /\ repo_file' = r.manager.repo_file
            /\ doc_file' = r.manager.doc_file
            /\ last_set' = IF "set_repositories" \in Range(r.calls)
                           THEN [repositories |-> r.manager._repo_cache.items, tag |-> "set",
                                 timestamp |-> now]
                           ELSE last_set
            /\ UNCHANGED <<now, reply, tree, indexed, clientVars, pagingVars, peerVars>>

\* The cache files that a ranking finds: those that a manager has written a
\* moment ago
RankingStart ==
    /\ now = StartTime
    /\ repo_file \in {_save_repositories(List(repositories), StartTime - 1, Missing) :
                         repositories \in RankingRepoLists}
    /\ doc_file \in {_save_documentation(cache, StartTime - 1, Missing) :
                        cache \in RankingDocCaches}
    /\ Loaded
    /\ last_set = NeverSet
    /\ reply = Reply("__init__", <<>>, Return(NoneVal), now)
    /\ tree = SearchTrees
    /\ indexed = NoIndexing
    /\ searched = NoSearch
    /\ peer = NoPeer

\* search_repositories over the repositories and the indexes of a ranking,
\* which are fresh: no request is made
RankRepositories ==
    \E query \in RankingQueries, top_k \in RankingTopKs, warm_cache \in BOOLEAN,
       sv \in {EmptyServer}, answers \in {[repo_path \in RepoPaths |-> NoFault]} :
        \E r \in {search_repositories(query, top_k, warm_cache,
                      Manager(_repo_cache, _repo_cache_time, _doc_cache, _doc_cache_time,
                              repo_file, doc_file),
                      sv, tree, answers, now)} :
            /\ searched' = [args |-> [query |-> query, top_k |-> top_k,
                                      warm_cache |-> warm_cache],
                            calls |-> r.calls, indexing |-> r.indexing,
                            op |-> "search_repositories",
                            outcome |-> r.outcome, results |-> r.results,
                            timestamp |-> now]
            /\ _repo_cache' = r.manager._repo_cache
            /\ _repo_cache_time' = r.manager._repo_cache_time
            /\ _doc_cache' = r.manager._doc_cache
            /\ _doc_cache_time' = r.manager._doc_cache_time
            /\ repo_file' = r.manager.repo_file
            /\ doc_file' = r.manager.doc_file
            /\ last_set' = IF "set_repositories" \in Range(r.calls)
                           THEN [repositories |-> r.manager._repo_cache.items, tag |-> "set",
                                 timestamp |-> now]
                           ELSE last_set
            /\ UNCHANGED <<now, reply, tree, indexed, clientVars, pagingVars, peerVars>>

\* The trees of the repositories that a warm-up indexes: a README in each of
\* the long list
WarmupTrees ==
    [repo_path \in IndexedPaths |->
        IF repo_path \in RepoPaths THEN SearchTrees[repo_path]
        ELSE <<Blob(1, <<"R", "E", "A", "D", "M", "E", ".", "m", "d">>, <<"R", "E", "A", "D", "M", "E", ".", "m", "d">>)>>]

\* The queries of a warm-up: one that matches, one that does not, a blank one
WarmupQueries == {<<"n", "e", "x", "u", "s">>, <<"z", "z", "z">>, <<" ", "\t">>}

\* The cache files that a warm-up finds: a list of repositories written a
\* moment ago, no documentation or indexes written a TTL ago or a moment ago
WarmupStart ==
    /\ now = StartTime
    /\ repo_file \in {_save_repositories(List(repositories), StartTime - 1, Missing) :
                         repositories \in WarmupRepoLists}
    /\ doc_file \in SearchDocFiles
    /\ Loaded
    /\ last_set = NeverSet
    /\ reply = Reply("__init__", <<>>, Return(NoneVal), now)
    /\ tree = WarmupTrees
    /\ indexed = NoIndexing
    /\ searched = NoSearch
    /\ peer = NoPeer

\* search_repositories over the lists of a warm-up; the server lists no
\* projects when the cached list has expired
WarmupSearch ==
    \E query \in WarmupQueries, warm_cache \in BOOLEAN, net \in IndexerAnswers :
        \E r \in {search_repositories(query, 2, warm_cache,
                      Manager(_repo_cache, _repo_cache_time, _doc_cache, _doc_cache_time,
                              repo_file, doc_file),
                      EmptyServer, tree, [repo_path \in IndexedPaths |-> net], now)} :
            /\ searched' = [args |-> [query |-> query, top_k |-> 2,
                                      warm_cache |-> warm_cache],
                            calls |-> r.calls, indexing |-> r.indexing,
                            op |-> "search_repositories",
                            outcome |-> r.outcome, results |-> r.results,
                            timestamp |-> now]
            /\ _repo_cache' = r.manager._repo_cache
            /\ _repo_cache_time' = r.manager._repo_cache_time
            /\ _doc_cache' = r.manager._doc_cache
            /\ _doc_cache_time' = r.manager._doc_cache_time
            /\ repo_file' = r.manager.repo_file
            /\ doc_file' = r.manager.doc_file
            /\ last_set' = IF "set_repositories" \in Range(r.calls)
                           THEN [repositories |-> r.manager._repo_cache.items, tag |-> "set",
                                 timestamp |-> now]
                           ELSE last_set
            /\ UNCHANGED <<now, reply, tree, indexed, clientVars, pagingVars, peerVars>>

(***************************************************************************)
(* The tools (tools.py): gitlab_search_repos and gitlab_list_repos over    *)
(* the client, the cache manager, the indexer and the search engine that   *)
(* register_gitlab_tools constructs.                                       *)
(***************************************************************************)
\* The arguments of a tool call: a dict, a function from its keys
NoArgs == <<>>
SearchReposArgs ==
    {NoArgs,
     "query" :> <<>>,
     "query" :> <<" ", "\t">>,
     ("query" :> <<"z", "z", "z">>) @@ ("warm_cache" :> FALSE),
     ("query" :> <<" ", "n", "e", "x", "u", "s", " ">>) @@ ("top_k" :> 2),
     "query" :> <<"r", "e", "a", "d", "m", "e">>}

\* gitlab_search_repos without the test of the query
search_repos_unchecked(args, manager, sv, trees, answers, t) ==
    LET query == strip(DictGet(args, "query", <<>>))
        top_k == DictGet(args, "top_k", 10)
        warm_cache == DictGet(args, "warm_cache", TRUE)
        Passed(r) ==
            [calls |-> r.calls,
             engine |-> <<[query |-> query, top_k |-> top_k, warm_cache |-> warm_cache]>>,
             indexing |-> r.indexing,
             manager |-> r.manager,
             outcome |-> r.outcome]
    IN  Passed(search_repositories(query, top_k, warm_cache, manager, sv, trees, answers, t))

\* gitlab_search_repos, execute(args) at time t: what it returns, the calls
\* of the search engine, the calls that the engine makes, the manager
\* afterwards
search_repos(args, manager, sv, trees, answers, t) ==
    LET query == strip(DictGet(args, "query", <<>>))
        top_k == DictGet(args, "top_k", 10)
        warm_cache == DictGet(args, "warm_cache", TRUE)
        Passed(r) ==
            [calls |-> r.calls,
             engine |-> <<[query |-> query, top_k |-> top_k, warm_cache |-> warm_cache]>>,
             indexing |-> r.indexing,
             manager |-> r.manager,
             outcome |-> r.outcome]
    IN  IF query = <<>>
        THEN [calls |-> <<>>, engine |-> <<>>, indexing |-> <<>>, manager |-> manager,
              outcome |-> Return([error |-> <<"Q", "u", "e", "r", "y", " ", "i", "s", " ", "r", "e", "q", "u", "i", "r", "e", "d">>, success |-> FALSE])]
        ELSE Passed(search_repositories(query, top_k, warm_cache, manager, sv, trees,
                                        answers, t))

ListReposArgs == {NoArgs, "use_cache" :> TRUE, "use_cache" :> FALSE}

\* An entry of the list that gitlab_list_repos returns; of the fields of a
\* Repository with a default only description is kept
ListedRepository(r) ==
    [description |-> r.description, id |-> r.id, name |-> r.name, path |-> r.path]

\* The dict that gitlab_list_repos returns
Listing(repos, cache_used) ==
    [cache_used |-> cache_used,
     count |-> Len(repos),
     repositories |-> [i \in 1..Len(repos) |-> ListedRepository(repos[i])],
     success |-> TRUE]

\* gitlab_list_repos, execute(args) at time t: what it returns, the calls
\* of the cache and of the client, the manager afterwards
list_repos(args, manager, sv, t) ==
    LET use_cache == DictGet(args, "use_cache", TRUE)
        Fetch(before, fetched) ==
            [calls |-> before \o <<"get_all_repositories", "set_repositories">>,
             manager |-> [manager EXCEPT
                             !._repo_cache = fetched,
                             !._repo_cache_time = Num(t),
                             !.repo_file = _save_repositories(fetched, t, @)],
             outcome |-> Return(Listing(fetched.items, FALSE))]
        Got(repos) ==
            IF repos.kind = "raise"
            THEN [calls |-> <<"get_repositories">>, manager |-> manager, outcome |-> repos]
            ELSE IF repos.value # NoneVal /\ repos.value.items # <<>>
            THEN [calls |-> <<"get_repositories">>, manager |-> manager,
                  outcome |-> Return(Listing(repos.value.items, TRUE))]
            ELSE Fetch(<<"get_repositories">>, List(FetchedRepositories[sv]))
    IN  IF use_cache
        THEN Got(get_repositories(manager._repo_cache, manager._repo_cache_time, t))
        ELSE Fetch(<<>>, List(FetchedRepositories[sv]))

ListReposTool ==
    \E args \in ListReposArgs, sv \in ToolServers :
        \E r \in {list_repos(args,
                      Manager(_repo_cache, _repo_cache_time, _doc_cache, _doc_cache_time,
                              repo_file, doc_file),
                      sv, now)} :
            /\ searched' = [args |-> args, calls |-> r.calls, op |-> "list_repos",
                            outcome |-> r.outcome, sv |-> sv, timestamp |-> now]
            /\ _repo_cache' = r.manager._repo_cache
            /\ _repo_cache_time' = r.manager._repo_cache_time
            /\ repo_file' = r.manager.repo_file
            /\ last_set' = IF "set_repositories" \in Range(r.calls)
                           THEN [repositories |-> r.manager._repo_cache.items, tag |-> "set",
                                 timestamp |-> now]
                           ELSE last_set
            /\ UNCHANGED <<now, reply, tree, indexed, _doc_cache, _doc_cache_time, doc_file,
                           clientVars, pagingVars, peerVars>>

\* Time passes between two calls of the tools
ToolsTick ==
    /\ now < MaxTime
    /\ now' = now + 1
    /\ UNCHANGED <<diskVars, memoryVars, last_set, reply, tree, indexed, searched,
                   clientVars, pagingVars, peerVars>>

SearchReposTool ==
    \E args \in SearchReposArgs, sv \in SearchServers, answers \in WarmupAnswers :
        \E r \in {search_repos(args,
                      Manager(_repo_cache, _repo_cache_time, _doc_cache, _doc_cache_time,
                              repo_file, doc_file),
                      sv, tree, answers, now)} :
            /\ searched' = [args |-> args, calls |-> r.calls, engine |-> r.engine,
                            indexing |-> r.indexing, op |-> "search_repos", outcome |-> r.outcome, sv |-> sv,
                            timestamp |-> now]
            /\ _repo_cache' = r.manager._repo_cache
            /\ _repo_cache_time' = r.manager._repo_cache_time
            /\ _doc_cache' = r.manager._doc_cache
            /\ _doc_cache_time' = r.manager._doc_cache_time
            /\ repo_file' = r.manager.repo_file
            /\ doc_file' = r.manager.doc_file
            /\ last_set' = IF "set_repositories" \in Range(r.calls)
                           THEN [repositories |-> r.manager._repo_cache.items, tag |-> "set",
                                 timestamp |-> now]
                           ELSE last_set
            /\ UNCHANGED <<now, reply, tree, indexed, clientVars, pagingVars, peerVars>>

(***************************************************************************)
(* Specifications                                                          *)
(***************************************************************************)
ClientInit ==
    /\ ClientIdle
    /\ PagingIdle
    /\ CacheIdle
    /\ IndexerIdle
    /\ SearchIdle

ClientNext ==
    \/ Get
    \/ GetAllRepositories
    \/ GetRepository
    \/ ListDirectory
    \/ GetFileContent
    \/ ListTree

Init == ClientInit

SpecClient == ClientInit /\ [][ClientNext]_vars

ContentNext == GetSizedFileContent
SpecContent == ClientInit /\ [][ContentNext]_vars

PagingInit ==
    /\ server \in Servers
    /\ loop = LoopStart
    /\ ClientIdle
    /\ CacheIdle
    /\ IndexerIdle
    /\ SearchIdle

PagingNext == GetAllRepositoriesPage

SpecPaging == PagingInit /\ [][PagingNext]_vars

CacheInit ==
    /\ CacheStart
    /\ ClientIdle
    /\ PagingIdle
    /\ IndexerIdle
    /\ SearchIdle

CacheNext ==
    \/ Tick
    \/ Construct
    \/ SetRepositories
    \/ GetRepositories
    \/ IsDocCacheValid
    \/ GetDocIndex
    \/ SetDocIndex
    \/ Save
    \/ Clear

SpecCache == CacheInit /\ [][CacheNext]_vars

SharedInit ==
    /\ SharedStart
    /\ ClientIdle
    /\ PagingIdle
    /\ IndexerIdle
    /\ SearchIdle

SharedNext ==
    \/ Switch
    \/ SetRepositories
    \/ SetDocIndex
    \/ Save
    \/ Clear

SpecShared == SharedInit /\ [][SharedNext]_vars

IndexerInit ==
    /\ IndexerStart
    /\ ClientIdle
    /\ PagingIdle
    /\ CacheIdle
    /\ SearchIdle

IndexerNext == IndexRepository

SpecIndexer == IndexerInit /\ [][IndexerNext]_vars

BatchInit ==
    /\ BatchStart
    /\ ClientIdle
    /\ PagingIdle
    /\ CacheIdle
    /\ SearchIdle

BatchNext == IndexRepositories

SpecBatch == BatchInit /\ [][BatchNext]_vars

SearchInit ==
    /\ SearchStart
    /\ ClientIdle
    /\ PagingIdle

SearchNext == SearchRepositories

SpecSearch == SearchInit /\ [][SearchNext]_vars

RankingInit ==
    /\ RankingStart
    /\ ClientIdle
    /\ PagingIdle

RankingNext == RankRepositories

SpecRanking == RankingInit /\ [][RankingNext]_vars

WarmupInit ==
    /\ WarmupStart
    /\ ClientIdle
    /\ PagingIdle

WarmupNext ==
    \/ WarmupSearch
    \/ Tick

SpecWarmup == WarmupInit /\ [][WarmupNext]_vars

ToolsInit == SearchInit

ToolsNext ==
    \/ SearchReposTool
    \/ ListReposTool
    \/ ToolsTick

SpecTools == ToolsInit /\ [][ToolsNext]_vars

(***************************************************************************)
(* Properties of the client's operations                                   *)
(***************************************************************************)
ClientOps ==
    {"get_all_repositories", "get_repository", "list_directory", "get_file_content", "list_tree"}

ForbiddenInUrl(url) == \E param \in FORBIDDEN_PARAMS : IsSubstr(param, url)
ForbiddenAmongParams(params) == \E param \in FORBIDDEN_PARAMS : param \in DOMAIN params

\* The condition under which get() may put a request on the network
Permitted(c) ==
    /\ StartsWith(c.args.url, base_url)
    /\ ~ForbiddenInUrl(c.args.url)
    /\ ~ForbiddenAmongParams(c.args.params)

\* C1: a call of get(endpoint, params) puts a request on the network only if
\* the resolved URL starts with the base URL and no forbidden name occurs in
\* the URL or among the names of the request parameters; otherwise it raises
\* a SecurityError and no request is made.
C1_GetIsGuarded ==
    call.op = "get" =>
        /\ (call.sent # <<>> => Permitted(call))
        /\ (~Permitted(call) => call.outcome = Raise("SecurityError") /\ call.sent = <<>>)

\* get() refused a request to the base URL for a forbidden parameter name alone
C1_Witness ==
    /\ call.op = "get"
    /\ StartsWith(call.args.url, base_url)
    /\ ~ForbiddenInUrl(call.args.url)
    /\ ForbiddenAmongParams(call.args.params)
    /\ call.outcome = Raise("SecurityError")
    /\ call.sent = <<>>

\* C2: when the URL or parameter check fails inside a client operation, the
\* SecurityError reaches the caller of the operation.
C2_SecurityErrorPropagates ==
    (call.op \in ClientOps /\ call.sec) => call.outcome = Raise("SecurityError")

\* What an operation returns for a failure it absorbs
SafeDefault(op) ==
    CASE op \in {"get_repository", "get_file_content"} -> Return(NoneVal)
      [] op = "list_directory" -> Return(EmptyListing)
      [] OTHER -> Return([items |-> <<>>, tag |-> "list"])

\* The call met a failure that is not a security failure before it had any result
FailedCall(c) ==
    /\ c.op \in ClientOps
    /\ ~c.sec
    /\ \/ c.net.answer \notin {"ok", "unparsable"} /\ c.op # "get_all_repositories"
       \/ c.body = "unparsable" /\ c.op # "get_all_repositories"
       \/ c.op = "get_all_repositories" /\ c.args.server.fault_page = 1

OtherHttpError(c) == c.net.answer = "http" /\ c.net.status # 404

StopsAt(sv, p) ==
    \/ sv.header.tag = "int" /\ p >= sv.header.value
    \/ Len(PageEntries(sv, p)) < per_page

LastPage(sv) ==
    CHOOSE p \in 1..(Len(sv.sizes) + 1) : StopsAt(sv, p) /\ \A q \in 1..(p - 1) : ~StopsAt(sv, q)

RECURSIVE EntriesUpTo(_, _)
EntriesUpTo(sv, k) == IF k = 0 THEN <<>> ELSE EntriesUpTo(sv, k - 1) \o PageEntries(sv, k)

\* C5: when every page request succeeds, get_all_repositories requests pages
\* 1, 2, ... in order with page size 100 and stops exactly after the first
\* page whose number reaches the total the server reports or that holds
\* fewer than 100 entries; it returns the entries of the requested pages in
\* order.
C5_Pagination ==
    (loop.done /\ server.fault_page = 0 /\ ~server.malformed) =>
        LET k == LastPage(server)
        IN  /\ Len(loop.requests) = k
            /\ \A i \in 1..k :
                   loop.requests[i] = [params |-> PageParams(i), url |-> ResolveUrl(<<"p", "r", "o", "j", "e", "c", "t", "s">>)]
            /\ loop.all_repos = EntriesUpTo(server, k)
(***************************************************************************)
(* Properties of the cache manager                                         *)
(***************************************************************************)
\* C3: on a cache manager instance, get_repositories() returns the list given
\* to the most recent set_repositories while fewer than repo_ttl seconds have
\* passed since that call, and None once repo_ttl seconds or more have passed;
\* it returns None when no list was ever set or loaded. (clear() leaves the
\* manager with no list set.)
C3_RepositoriesWithinTtl ==
    reply.op = "get_repositories" =>
        /\ last_set.tag = "set" =>
               reply.outcome = IF reply.timestamp - last_set.timestamp < repo_ttl
                               THEN Return(List(last_set.repositories))
                               ELSE Return(NoneVal)
        /\ (last_set.tag = "never" /\ _repo_cache = NoneVal) => reply.outcome = Return(NoneVal)

\* get_repositories() returned a list of two set some time ago, its TTL not yet over
C3_Witness ==
    /\ reply.op = "get_repositories"
    /\ last_set.tag = "set"
    /\ last_set.repositories = <<Repo1, Repo2>>
    /\ reply.timestamp > last_set.timestamp
    /\ reply.timestamp - last_set.timestamp < repo_ttl
    /\ reply.outcome = Return(List(<<Repo1, Repo2>>))

\* A repository cache file as a manager writes it: a JSON object with a list
\* of repositories and a number as timestamp
IsRepoCacheFile(file) ==
    /\ file.tag = "json"
    /\ file.value.tag = "object"
    /\ {"repositories", "timestamp"} \subseteq DOMAIN file.value
    /\ file.value.repositories.tag = "list"
    /\ \A i \in 1..Len(file.value.repositories.items) :
           IsRepositoryData(file.value.repositories.items[i])
    /\ file.value.timestamp.tag = "num"

\* A documentation cache file as a manager writes it
IsDocCacheFile(file) ==
    /\ file.tag = "json"
    /\ file.value.tag = "object"
    /\ {"cache", "timestamp"} \subseteq DOMAIN file.value
    /\ file.value.cache.tag = "dict"
    /\ \A path \in DOMAIN file.value.cache.items : IsDocIndexData(file.value.cache.items[path])
    /\ file.value.timestamp.tag = "num"

\* C10: constructing a cache manager never fails; over a missing, unparsable
\* or wrongly-structured repository cache file get_repositories() returns
\* None; over a missing or corrupt documentation cache file the documentation
\* cache is empty and is_doc_cache_valid() is false; the one file does not
\* affect the loading of the other.
C10_CorruptFilesLoadAsEmpty ==
    reply.op = "__init__" =>
        /\ reply.outcome = Return(NoneVal)
        /\ ~IsRepoCacheFile(repo_file) =>
               get_repositories(_repo_cache, _repo_cache_time, now) = Return(NoneVal)
        /\ ~IsDocCacheFile(doc_file) =>
               /\ \A index \in DocIndexes :
                      get_doc_index(_doc_cache, index.repo_path) = Return(NoneVal)
               /\ is_doc_cache_valid(_doc_cache, _doc_cache_time, now) = Return(Bool(FALSE))
        /\ _repo_cache = _load_repositories(repo_file)._repo_cache
        /\ _doc_cache = _load_documentation(doc_file)._doc_cache

(***************************************************************************)
(* Properties of the documentation cache                                   *)
(***************************************************************************)
\* The documentation cache holds indexes and is_doc_cache_valid says no: it
\* is stale by its age
StaleByAge(cache, cache_time, t) ==
    /\ DOMAIN cache # {}
    /\ is_doc_cache_valid(cache, cache_time, t) = Return(Bool(FALSE))

\* The step is a set_doc_index
SetsDocIndex == reply'.op = "set_doc_index" /\ now' = now

\* C28: set_doc_index(p, index) changes the in-memory entry for p and
\* nothing else: the indexes of the other repositories, the timestamp of the
\* documentation cache, the repository cache and the two cache files are as
\* before, and a cache that was stale by its age is stale afterwards
C28_SetDocIndexIsLocal ==
    [][SetsDocIndex =>
           LET p == reply'.args[1]
           IN  /\ DOMAIN _doc_cache' = DOMAIN _doc_cache \cup {p}
               /\ _doc_cache'[p] \in {index \in DocIndexes : index.repo_path = p}
               /\ \A q \in DOMAIN _doc_cache \ {p} : _doc_cache'[q] = _doc_cache[q]
               /\ _doc_cache_time' = _doc_cache_time
               /\ _repo_cache' = _repo_cache
               /\ _repo_cache_time' = _repo_cache_time
               /\ repo_file' = repo_file
               /\ doc_file' = doc_file
               /\ StaleByAge(_doc_cache, _doc_cache_time, now)
                      => StaleByAge(_doc_cache', _doc_cache_time', now')]_vars

\* set_doc_index has replaced an index of a cache that holds the index of
\* another repository, is stale by its age and has a file
C28_Witness ==
    /\ reply.op = "set_doc_index"
    /\ reply.timestamp = now
    /\ Cardinality(DOMAIN _doc_cache) = 2
    /\ _doc_cache[reply.args[1]] = Index1Later
    /\ StaleByAge(_doc_cache, _doc_cache_time, now)
    /\ doc_file # Missing
    /\ _repo_cache # NoneVal

\* The step is a save() of the manager that makes the calls
Saves == reply'.op = "save" /\ now' = now /\ peer' = peer

\* C29: when two managers use one cache directory and each saves, the cache
\* files hold the caches of the one that has saved last and nothing else:
\* what only the earlier one has written is overwritten and not merged, and
\* a manager constructed afterwards loads the entries of the last writer
\* only
C29_LastSaverOwnsTheFiles ==
    [][(Saves /\ peer # NoPeer) =>
           /\ _load_documentation(doc_file')._doc_cache = _doc_cache
           /\ _load_repositories(repo_file')._repo_cache = _repo_cache]_vars

\* A save() of a manager that holds indexes and a list of repositories
\* leaves the files with its caches and nothing else
C29_SaverWithEntriesOwnsTheFiles ==
    [][(Saves /\ peer # NoPeer /\ DOMAIN _doc_cache # {} /\ _repo_cache # NoneVal) =>
           /\ _load_documentation(doc_file')._doc_cache = _doc_cache
           /\ _load_repositories(repo_file')._repo_cache = _repo_cache]_vars

\* The other manager has saved an index that the manager lacks, and the
\* manager has saved after it
C29_SavedOverThePeer ==
    /\ peer # NoPeer
    /\ reply.op = "save"
    /\ DOMAIN peer._doc_cache \ DOMAIN _doc_cache # {}
    /\ DOMAIN _doc_cache # {}
    /\ _load_documentation(doc_file)._doc_cache = _doc_cache

(***************************************************************************)
(* Properties of the indexer                                               *)
(***************************************************************************)
\* A path matches the denylist; a path's extension is in the allow-list
IsSensitive(path) ==
    \E i \in 1..Len(SENSITIVE_PATTERNS) : IsSubstr(SENSITIVE_PATTERNS[i], Lower(path))
HasAllowedExtension(path) == Lower(splitext(path)) \in ALLOWED_EXTENSIONS

\* The paths of the trees that must stay out of every index
ExcludedPaths ==
    {path \in EntryPaths : IsSensitive(path) \/ ~HasAllowedExtension(path)}

\* The paths for which the last index_repository has called get_file_content
FetchedPaths ==
    IF indexed.op # "index_repository" THEN {}
    ELSE {indexed.calls[i].file_path :
             i \in {k \in 1..Len(indexed.calls) : indexed.calls[k].op = "get_file_content"}}

\* The index that the last index_repository has returned, if it has
HasIndexed == indexed.op = "index_repository" /\ indexed.outcome.value # NoneVal

\* The paths of the files of an index
StoredPaths(index) ==
    DOMAIN index.files \cup {index.files[path].path : path \in DOMAIN index.files}

\* C6: index_repository calls get_file_content for no file, and stores in a
\* DocIndex (the one it returns, those of the documentation cache) no file,
\* whose path matches the denylist of sensitive patterns or whose extension
\* is outside the allow-list.
C6_ExcludedFilesStayOut ==
    /\ FetchedPaths \cap ExcludedPaths = {}
    /\ HasIndexed => StoredPaths(indexed.outcome.value) \cap ExcludedPaths = {}
    /\ \A repo_path \in DOMAIN _doc_cache :
           StoredPaths(_doc_cache[repo_path]) \cap ExcludedPaths = {}

\* A repository whose tree holds a documentation file under a sensitive path
\* next to one that is accepted has been indexed, the accepted file fetched
C6_Witness ==
    /\ HasIndexed
    /\ indexed.args.force_refresh
    /\ LET entries == tree[indexed.args.repo_path]
       IN  \E i \in 1..Len(entries) :
               /\ entries[i].type = "blob"
               /\ IsSensitive(entries[i].path)
               /\ DetectedType[entries[i].name] # NoneVal
    /\ FetchedPaths # {}
    /\ DOMAIN indexed.outcome.value.files # {}
    /\ indexed.args.repo_path \in DOMAIN _doc_cache

\* The DocTypes of a file name by the patterns that DOC_PATTERNS lists
\* under each type
DeclaredTypes ==
    [file_name \in EntryNames |->
        {DocTypeOf(DocPatternEntries[i].name) :
            i \in {k \in 1..Len(DocPatternEntries) :
                      \E n \in 1..Len(DocPatternEntries[k].patterns) :
                          re_search(DocPatternEntries[k].patterns[n], file_name)}}]

\* The accepted files of a tree: the blobs whose path is not excluded
AcceptedFiles(entries) ==
    {entries[i] : i \in {k \in 1..Len(entries) :
                            /\ entries[k].type = "blob"
                            /\ entries[k].path \notin ExcludedPaths}}

\* The types of the accepted files of a tree
AcceptedTypes(entries) ==
    UNION {DeclaredTypes[entry.name] : entry \in AcceptedFiles(entries)}

\* The accepted files of a tree that match a type
FilesOfType(entries, doc_type) ==
    {entry.path : entry \in {e \in AcceptedFiles(entries) : doc_type \in DeclaredTypes[e.name]}}

\* index_repository has been called with force_refresh, the tree listed and
\* every request for a file answered
HasIndexedAnswered ==
    /\ indexed.op = "index_repository"
    /\ indexed.args.force_refresh
    /\ TreeListed[indexed.args.repo_path][indexed.network.listing]
    /\ \A path \in DOMAIN indexed.network.files :
           indexed.network.files[path] = [answer |-> "ok"]

\* The entry is a blob that is accepted as a file of the type README, which
\* is the type of highest priority
IsReadme(entry) ==
    /\ entry.type = "blob"
    /\ entry.path \in ValidPaths
    /\ DetectedType[entry.name] # NoneVal
    /\ DocTypeName(DetectedType[entry.name].value) = "README"

\* The index returned holds the file of the entry
IsIndexedFile(entry) ==
    /\ HasIndexed
    /\ entry.path \in DOMAIN indexed.outcome.value.files

\* C27: index_repository examines every blob entry of the recursive tree of
\* the repository, however many entries the tree has: a documentation file
\* is found and classified wherever it is in the listing, beyond the first
\* 100 entries too
C27_EveryBlobIsExamined ==
    HasIndexedAnswered =>
        LET entries == tree[indexed.args.repo_path]
        IN  \A i \in 1..Len(entries) : IsReadme(entries[i]) => IsIndexedFile(entries[i])

\* Every blob among the first 100 entries of the tree is examined
C27_FirstPageIsExamined ==
    HasIndexedAnswered =>
        LET entries == tree[indexed.args.repo_path]
        IN  \A i \in 1..Len(entries) :
                (i <= TreePerPage /\ IsReadme(entries[i])) => IsIndexedFile(entries[i])

\* C7: the doc_type of every DocIndex that index_repository produces is the
\* DocType of highest priority for which the tree of the repository holds
\* an accepted matching file; every file of the index has that doc_type;
\* only files matching that type are fetched or stored.
C7_IndexIsOfHighestPriorityType ==
    HasIndexed =>
        LET index == indexed.outcome.value
            entries == tree[index.repo_path]
            types == AcceptedTypes(entries)
        IN  /\ types # {}
            /\ \A doc_type \in types : doc_type <= index.doc_type
            /\ index.doc_type \in types
            /\ \A path \in DOMAIN index.files : index.files[path].doc_type = index.doc_type
            /\ DOMAIN index.files \subseteq FilesOfType(entries, index.doc_type)
            /\ FetchedPaths \subseteq FilesOfType(entries, index.doc_type)

\* index_repository has been called with force_refresh on a repository whose
\* tree is the one file of the name, the tree listed and every request for a
\* file answered
HasIndexedOnly(file_name) ==
    /\ indexed.op = "index_repository"
    /\ indexed.args.force_refresh
    /\ TreeListed[indexed.args.repo_path][indexed.network.listing]
    /\ \A path \in DOMAIN indexed.network.files :
           indexed.network.files[path] = [answer |-> "ok"]
    /\ tree[indexed.args.repo_path] = <<Blob(1, file_name, file_name)>>
           \/ tree[indexed.args.repo_path] = <<Blob(7, file_name, file_name)>>
           \/ tree[indexed.args.repo_path] = <<Blob(8, file_name, file_name)>>

\* The index returned is of the type of the name and holds the file
IsIndexOfType(name, file_name) ==
    /\ indexed.outcome.value # NoneVal
    /\ DocTypeName(indexed.outcome.value.doc_type) = name
    /\ file_name \in DOMAIN indexed.outcome.value.files
    /\ DocTypeName(indexed.outcome.value.files[file_name].doc_type) = name

\* C17: AGENTS and CLAUDE are two DocTypes of priority 4; a repository whose
\* only documentation file is AGENTS.md gets a DocIndex of type AGENTS that
\* holds the file, one whose only documentation file is CLAUDE.md a
\* DocIndex of type CLAUDE
C17_AgentsAndClaudeAreTwoTypes ==
    /\ HasIndexedOnly(<<"A", "G", "E", "N", "T", "S", ".", "m", "d">>) =>
           /\ IsIndexOfType("AGENTS", <<"A", "G", "E", "N", "T", "S", ".", "m", "d">>)
           /\ indexed.outcome.value.doc_type = 4
    /\ HasIndexedOnly(<<"C", "L", "A", "U", "D", "E", ".", "m", "d">>) =>
           /\ IsIndexOfType("CLAUDE", <<"C", "L", "A", "U", "D", "E", ".", "m", "d">>)
           /\ indexed.outcome.value.doc_type = 4
           /\ DocTypeName(indexed.outcome.value.doc_type) # "AGENTS"

\* The same of README.md and the type README
C17_HoldsOfReadme ==
    HasIndexedOnly(<<"R", "E", "A", "D", "M", "E", ".", "m", "d">>) => IsIndexOfType("README", <<"R", "E", "A", "D", "M", "E", ".", "m", "d">>)

\* A repository whose only file is AGENTS.md gets no index; one whose only
\* file is CLAUDE.md gets an index whose type is known as AGENTS
C17_AgentsFileIsNotIndexed ==
    /\ HasIndexedOnly(<<"A", "G", "E", "N", "T", "S", ".", "m", "d">>) => indexed.outcome.value = NoneVal
    /\ HasIndexedOnly(<<"C", "L", "A", "U", "D", "E", ".", "m", "d">>) => IsIndexOfType("AGENTS", <<"C", "L", "A", "U", "D", "E", ".", "m", "d">>)

\* The files that an index_repository recorded as s has selected
SelectedPaths(s) ==
    LET repo == CHOOSE r \in Repos : r.path = s.args.repo_path
        selected_files == _select_doc_files(_find_doc_files(repo, tree[repo.path],
                                                            s.network.listing))[2]
    IN  {selected_files[i].path : i \in 1..Len(selected_files)}

\* The number of its calls of get_file_content for the file
FetchCount(s, path) ==
    Cardinality({i \in 1..Len(s.calls) :
                    s.calls[i].op = "get_file_content" /\ s.calls[i].file_path = path})

\* The step is an index_repository with force_refresh of a repository that
\* has an index in the cache
ReindexesByForce ==
    /\ indexed'.op = "index_repository"
    /\ indexed'.args.force_refresh
    /\ indexed'.args.repo_path \in DOMAIN _doc_cache

\* C18: an index_repository with force_refresh of a repository that has an
\* index in the cache makes no get_file_content call for a selected file
\* that the previous index holds in a copy younger than doc_ttl, and one
\* such call for each other selected file
C18_FreshFilesAreReused ==
    [][ReindexesByForce =>
           LET previous == _doc_cache[indexed'.args.repo_path]
           IN  \A path \in SelectedPaths(indexed') :
                   IF /\ path \in DOMAIN previous.files
                      /\ now - previous.files[path].cached_at < doc_ttl
                   THEN FetchCount(indexed', path) = 0
                   ELSE FetchCount(indexed', path) = 1]_vars

\* With force_refresh every selected file is fetched once, whatever the
\* previous index holds
C18_EveryFileIsFetchedByForce ==
    [][ReindexesByForce =>
           \A path \in SelectedPaths(indexed') : FetchCount(indexed', path) = 1]_vars

(***************************************************************************)
(* Properties of the search engine                                         *)
(***************************************************************************)
\* index_repository has built an index and stored it in the cache
HasStoredIndex ==
    /\ HasIndexed
    /\ indexed.calls # <<>>
    /\ indexed.args.repo_path \in DOMAIN _doc_cache
    /\ _doc_cache[indexed.args.repo_path] = indexed.outcome.value

\* C30: in every DocIndex that index_repository stores in the cache,
\* best_file is not None and is one of the keys of files
C30_BestFileIsStored ==
    HasStoredIndex =>
        LET index == _doc_cache[indexed.args.repo_path]
        IN  /\ index.best_file # NoneVal
            /\ index.best_file.text \in DOMAIN index.files

\* best_file is not None and is the first of the selected files, stored or not
C30_BestFileIsFirstSelected ==
    HasStoredIndex =>
        LET index == _doc_cache[indexed.args.repo_path]
        IN  /\ index.best_file # NoneVal
            /\ index.best_file.text \in SelectedPaths(indexed)
            /\ DOMAIN index.files # {}

\* A keyword is a substring of the repository's lower-cased name, description
\* or path
MatchesMetadata(repo, keywords) ==
    \E i \in 1..Len(keywords) :
        \/ IsSubstr(keywords[i], Lower(repo.name))
        \/ IsSubstr(keywords[i], Lower(repo.description))
        \/ IsSubstr(keywords[i], Lower(repo.path))

\* The repositories that the keywords of each query match
MetadataMatches ==
    [query \in Queries |->
        {repo \in KnownRepos : MatchesMetadata(repo, _extract_keywords(strip(query)))}]

\* The repositories whose cached documentation holds a keyword of the query
ContentMatches(query) ==
    {repo \in KnownRepos :
        /\ repo.path \in DOMAIN _doc_cache
        /\ _search_content(_doc_cache[repo.path], _extract_keywords(strip(query))) > 0}

\* The repositories that the last search has gone through
SearchedRepos == IF _repo_cache = NoneVal THEN {} ELSE Range(_repo_cache.items)

\* The last search has returned results; the results
HasSearched == searched.op = "search_repositories" /\ searched.results.kind = "return"
Results == searched.results.value.items

\* C4: every repository that search() returns has a metadata score that is
\* not zero: a keyword of the query is a substring of its lower-cased name,
\* description or path, whatever its cached documentation holds; a query
\* that matches the metadata of no repository gives success = true, an
\* empty list of repositories and count = 0.
C4_OnlyMetadataMatchesAreReturned ==
    searched.op = "search_repositories" =>
        LET query == searched.args.query
            answer == searched.outcome.value
        IN  /\ HasSearched =>
                \A i \in 1..Len(Results) :
                    /\ Results[i].repository \in MetadataMatches[query]
                    /\ Results[i].score > 0
                    /\ answer.repositories[i].path_namespace = Results[i].repository.path
            /\ SearchedRepos \cap MetadataMatches[query] = {} =>
                /\ answer.success
                /\ answer.repositories = <<>>
                /\ answer.count = 0

\* A search has returned a repository whose metadata the query matches, and
\* not the repository that it has gone through and whose cached
\* documentation alone matches
C4_Witness ==
    /\ HasSearched
    /\ Results # <<>>
    /\ \E repo \in SearchedRepos \cap ContentMatches(searched.args.query) :
           /\ repo \notin MetadataMatches[searched.args.query]
           /\ \A i \in 1..Len(Results) : Results[i].repository # repo

(***************************************************************************)
(* Properties of the content cap                                           *)
(***************************************************************************)
\* A call of get_file_content whose request the server has answered with
\* the text of the file
ContentAnswered ==
    /\ call.op = "get_file_content"
    /\ "text" \in DOMAIN call.args
    /\ ~call.sec
    /\ call.net.answer = "ok"

\* s is the first characters of text
IsPrefixOf(s, text) == Len(s) <= Len(text) /\ s = SubSeq(text, 1, Len(s))

\* C11: for a file whose size in UTF-8 exceeds the byte cap get_file_content
\* returns a prefix of the content whose encoded size is exactly the cap,
\* for content of one-byte and of multi-byte characters alike; content at
\* or under the cap is returned unchanged.
C11_ContentIsCapped ==
    ContentAnswered =>
        /\ call.outcome.kind = "return"
        /\ call.outcome.value # NoneVal
        /\ IsPrefixOf(call.outcome.value.text, call.args.text)
        /\ IF Utf8Len(call.args.text) > max_size
           THEN Utf8Len(call.outcome.value.text) = max_size
           ELSE call.outcome.value.text = call.args.text

\* The query is empty or of whitespace only
IsBlank(query) == \A i \in 1..Len(query) : query[i] \in {" ", "\t", "\n", "\r", "\f"}

\* The caches and the cache files before and after a step
managerVars == <<_repo_cache, _repo_cache_time, _doc_cache, _doc_cache_time, repo_file, doc_file>>

\* C12: for an empty or whitespace-only query search() returns [] and
\* search_repositories() returns success = true with count = 0, at once:
\* the repository cache is not read, no repository is fetched, the indexer
\* is not invoked, and the caches and their files stay as they are.
C12_BlankQueryAnswersAtOnce ==
    [][(searched'.op = "search_repositories" /\ IsBlank(searched'.args.query)) =>
          /\ searched'.results = Return(List(<<>>))
          /\ searched'.outcome.value.success
          /\ searched'.outcome.value.count = 0
          /\ searched'.outcome.value.repositories = <<>>
          /\ searched'.calls = <<>>
          /\ UNCHANGED managerVars]_vars

\* A search for a blank query, with the warm-up asked for, by an engine
\* whose repository cache and documentation cache are empty
C12_Witness ==
    /\ searched.op = "search_repositories"
    /\ IsBlank(searched.args.query)
    /\ searched.args.warm_cache
    /\ searched.outcome.value.success
    /\ _repo_cache = NoneVal
    /\ _doc_cache = <<>>

(***************************************************************************)
(* Properties of the tools                                                 *)
(***************************************************************************)
\* The query of a tool call is missing, empty or of whitespace only
HasNoQuery(args) == "query" \notin DOMAIN args \/ IsBlank(args["query"])

ResultLimit(top_k) ==
    LET most == IF top_k > 1 THEN top_k ELSE 1
    IN  IF most < 50 THEN most ELSE 50

\* The keywords of the search made, the repositories that it has searched
SearchedKeywords == _extract_keywords(strip(searched.args.query))
SearchedList == _repo_cache.items

\* The scores of the repositories searched, in their order: by their
\* metadata, and with the score of their cached index
MetadataScoresOf ==
    [i \in 1..Len(SearchedList) |-> _score_metadata_match(SearchedList[i], SearchedKeywords)]
TotalScoresOf(meta) ==
    [i \in 1..Len(SearchedList) |->
        meta[i] + (IF SearchedList[i].path \in DOMAIN _doc_cache
                   THEN _search_content(_doc_cache[SearchedList[i].path], SearchedKeywords)
                   ELSE 0)]

\* The candidates of phase 2, and those of them that it examines: the first
\* 3 x top_k by metadata score, the earlier first among equals
CandidatesOf(meta) == {i \in 1..Len(SearchedList) : meta[i] > 0}
ComesBefore(meta, j, i) == meta[j] > meta[i] \/ (meta[j] = meta[i] /\ j < i)
ExaminedOf(meta) ==
    LET candidates == CandidatesOf(meta)
    IN  {i \in candidates :
            Cardinality({j \in candidates : ComesBefore(meta, j, i)})
                < 3 * ResultLimit(searched.args.top_k)}

\* The search made has examined candidates
HasRanked ==
    /\ HasSearched
    /\ ~IsBlank(searched.args.query)
    /\ _repo_cache # NoneVal

\* C14: a search returns at most min(max(top_k, 1), 50) results, in
\* non-increasing order of total score, and they are the highest-scoring of
\* the candidates that phase 2 has examined
C14_ResultsAreTheBestExamined ==
    HasRanked =>
        LET meta == MetadataScoresOf
            total == TotalScoresOf(meta)
            examined == ExaminedOf(meta)
            returned == {Results[n].repository : n \in 1..Len(Results)}
        IN  /\ Len(Results) <= ResultLimit(searched.args.top_k)
            /\ \A n \in 1..(Len(Results) - 1) : Results[n].score >= Results[n + 1].score
            /\ \A n \in 1..Len(Results) :
                   \E i \in examined :
                       /\ SearchedList[i] = Results[n].repository
                       /\ total[i] = Results[n].score
            /\ Cardinality(returned) = Len(Results)
            /\ \/ Len(Results) = ResultLimit(searched.args.top_k)
               \/ Len(Results) = Cardinality(examined)
            /\ \A i \in examined :
                   SearchedList[i] \notin returned
                       => total[i] <= Results[Len(Results)].score

\* A search with top_k above 50 has returned 50 of more candidates, and at
\* their head one that is not the first by metadata score
C14_Witness ==
    /\ HasRanked
    /\ searched.args.top_k > 50
    /\ Len(Results) = 50
    /\ LET meta == MetadataScoresOf
       IN  /\ Cardinality(ExaminedOf(meta)) > 50
           /\ \E i, j \in ExaminedOf(meta) :
                  /\ SearchedList[i] = Results[1].repository
                  /\ ComesBefore(meta, j, i)

\* The sum of the values of a function over a finite domain
RECURSIVE SumOf(_)
SumOf(f) ==
    IF DOMAIN f = {} THEN 0
    ELSE LET x == CHOOSE y \in DOMAIN f : TRUE
         IN  f[x] + SumOf([y \in DOMAIN f \ {x} |-> f[y]])

\* What a keyword adds for a metadata field of a weight: ten times the
\* weight if it is the field, once the weight if it is within it
MetadataPoints(keyword, field_value, weight) ==
    IF keyword = Lower(field_value) THEN 10 * weight
    ELSE IF IsSubstr(keyword, Lower(field_value)) THEN weight
    ELSE 0

\* What a keyword adds for a file of an index of a priority: ten times the
\* priority if it is in the content as a whole word, once the priority if it
\* is in the content otherwise
ContentPoints(keyword, content, priority) ==
    IF WordMatch(keyword, Lower(content)) THEN 10 * priority
    ELSE IF IsSubstr(keyword, Lower(content)) THEN priority
    ELSE 0

\* The priorities of the types of documentation
PriorityOf ==
    [name \in {"README", "AGENTS", "CLAUDE", "CHANGELOG", "ENTRY"} |->
        IF name = "README" THEN 5
        ELSE IF name \in {"AGENTS", "CLAUDE"} THEN 4
        ELSE IF name = "CHANGELOG" THEN 3
        ELSE 2]

\* The metadata score and the content score of a repository for the keywords
\* of the search made, over the documentation cache as it is
MetadataScoreOf(repository, keywords) ==
    SumOf([i \in 1..Len(keywords) |->
              MetadataPoints(keywords[i], repository.name, 3)
                  + MetadataPoints(keywords[i], repository.description, 2)
                  + MetadataPoints(keywords[i], repository.path, 1)])
ContentScoreOf(repository, keywords) ==
    IF repository.path \notin DOMAIN _doc_cache THEN 0
    ELSE LET index == _doc_cache[repository.path]
             priority == PriorityOf[DocTypeName(index.doc_type)]
         IN  SumOf([path \in DOMAIN index.files |->
                       SumOf([i \in 1..Len(keywords) |->
                                 ContentPoints(keywords[i], index.files[path].content,
                                               priority)])])

\* C24: the score reported for a repository is its metadata score (per
\* keyword and field: name x 3, description x 2, path x 1, times 10 for an
\* exact match and times 1 for a substring) plus its content score (per file
\* of its cached DocIndex and per keyword in the content: 10 x priority for a
\* whole word, 1 x priority otherwise); for a repository without a cached
\* DocIndex it is the metadata score alone
C24_ScoreIsMetadataPlusContent ==
    HasRanked =>
        LET keywords == SearchedKeywords
        IN  \A n \in 1..Len(Results) :
                Results[n].score = MetadataScoreOf(Results[n].repository, keywords)
                                       + ContentScoreOf(Results[n].repository, keywords)

\* A search has reported a repository without an index whose name is the
\* keyword, and two whose indexes have the keyword as a whole word
C24_Witness ==
    /\ HasRanked
    /\ searched.args.query = <<"n", "e", "x", "u", "s">>
    /\ \E n \in 1..Len(Results) :
           /\ Results[n].repository = Repo1
           /\ Results[n].repository.path \notin DOMAIN _doc_cache
           /\ Results[n].score = 30 + 1
    /\ \E n \in 1..Len(Results) :
           /\ Results[n].repository = RankRepoC
           /\ Results[n].repository.path \in DOMAIN _doc_cache
           /\ Results[n].score = 2 + 30
    /\ \E n \in 1..Len(Results) :
           /\ Results[n].repository = RankRepoD
           /\ Results[n].score = 1 + 50

\* A search has reported a repository whose index has the keyword within a
\* word
C24_WithinAWord ==
    /\ HasRanked
    /\ \E n \in 1..Len(Results) :
           /\ Results[n].repository = RankRepoB
           /\ Results[n].score = 3 + 2

\* The repository has the keyword as its name
NameIs(repository, keyword) == Lower(repository.name) = keyword

\* The repository matches the keyword as a substring of its description and
\* in no other way
OnlyInDescription(repository, keyword) ==
    /\ IsSubstr(keyword, Lower(repository.description))
    /\ Lower(repository.description) # keyword
    /\ ~IsSubstr(keyword, Lower(repository.name))
    /\ ~IsSubstr(keyword, Lower(repository.path))

\* C15: of two results of one search, the one whose name is a keyword has a
\* strictly higher score than the one that matches that keyword only as a
\* substring of its description
C15_ExactNameOutscoresDescription ==
    HasRanked =>
        \A n, k \in 1..Len(Results) :
            \A keyword \in Range(SearchedKeywords) :
                (NameIs(Results[n].repository, keyword)
                    /\ OnlyInDescription(Results[k].repository, keyword))
                    => Results[n].score > Results[k].score

\* The same of the scores by metadata alone
C15_HoldsOfMetadataScores ==
    HasRanked =>
        \A i, j \in 1..Len(SearchedList) :
            \A keyword \in Range(SearchedKeywords) :
                (NameIs(SearchedList[i], keyword)
                    /\ OnlyInDescription(SearchedList[j], keyword))
                    => MetadataScoresOf[i] > MetadataScoresOf[j]

(***************************************************************************)
(* Properties of the tools over the repository cache                       *)
(***************************************************************************)
\* The call recorded is one of gitlab_list_repos that has fetched the list
\* from the server and stored it
HasFetchedListing(s) ==
    /\ s.op = "list_repos"
    /\ s.outcome.kind = "return"
    /\ ~s.outcome.value.cache_used
    /\ "set_repositories" \in Range(s.calls)

\* The step is a call of gitlab_list_repos(use_cache=true) made less than
\* repo_ttl after the call recorded
ListsAgainWithinTtl ==
    /\ now' = now
    /\ searched'.op = "list_repos"
    /\ DictGet(searched'.args, "use_cache", TRUE)
    /\ now - searched.timestamp < repo_ttl

\* The call of the step has answered from the cache what the call recorded
\* had fetched, without a request to the server
AnswersFromCache ==
    /\ searched'.outcome.kind = "return"
    /\ searched'.outcome.value.cache_used
    /\ searched'.outcome.value.repositories = searched.outcome.value.repositories
    /\ "get_all_repositories" \notin Range(searched'.calls)

\* C16: after a gitlab_list_repos that has fetched and stored the list, a
\* following gitlab_list_repos(use_cache=true) within repo_ttl answers from
\* the cache the same repositories and makes no request to the server,
\* whatever list the first call has fetched
C16_SecondListingIsFromCache ==
    [][(HasFetchedListing(searched) /\ ListsAgainWithinTtl) => AnswersFromCache]_vars

\* The same of the lists that have a repository
C16_HoldsOfNonEmptyLists ==
    [][(/\ HasFetchedListing(searched)
        /\ searched.outcome.value.count > 0
        /\ ListsAgainWithinTtl) => AnswersFromCache]_vars

\* The call recorded is one of a tool in which get_all_repositories has met
\* a request that raised, and has returned the entries collected before it
HasFailedToFetch(s) ==
    /\ s.op \in {"list_repos", "search_repos"}
    /\ "get_all_repositories" \in Range(s.calls)
    /\ s.sv.fault # NoFault

\* C19: a call of search or of gitlab_list_repos whose fetch of the
\* repositories fails leaves the repository cache as it was, in memory and
\* on disk
C19_FailedFetchKeepsCache ==
    [][(now' = now /\ HasFailedToFetch(searched'))
           => UNCHANGED <<_repo_cache, _repo_cache_time, repo_file>>]_vars

\* After a failed fetch the cache holds what the fetch has collected, as if
\* fetched in full
C19_FailedFetchIsCached ==
    [][(now' = now /\ HasFailedToFetch(searched'))
           => /\ _repo_cache' = List(FetchedRepositories[searched'.sv])
              /\ _repo_cache_time' = Num(now)]_vars

(***************************************************************************)
(* Properties of the repository cache over its persistence                 *)
(***************************************************************************)
\* get_repositories has returned a list that a set_repositories has stored,
\* in this manager or in one before it
ReturnsStoredList ==
    /\ reply.op = "get_repositories"
    /\ reply.outcome.kind = "return"
    /\ reply.outcome.value # NoneVal
    /\ last_set # NeverSet

\* C20: get_repositories returns a list only if fewer than repo_ttl seconds
\* have passed since the set_repositories that stored it, whatever saves
\* and constructions of a new manager have come between
C20_AgeSurvivesPersistence ==
    ReturnsStoredList => reply.timestamp - last_set.timestamp < repo_ttl

\* The same within one manager, whatever saves have come between
C20_HoldsWithinOneManager ==
    (ReturnsStoredList /\ last_set.tag = "set")
        => reply.timestamp - last_set.timestamp < repo_ttl

(***************************************************************************)
(* Properties of the warm-up over the searches of one engine               *)
(***************************************************************************)
\* The step is a search
Searches == searched'.op = "search_repositories" /\ now' = now

\* The places of a call in the calls of a search
PlacesOf(s, name) == {i \in 1..Len(s.calls) : s.calls[i] = name}

\* The list that a warm-up has passed to the indexer is of the candidates of
\* the highest metadata scores, at most 100 of them, the higher score first.
\* members are the repositories of the list and batch_scores their scores;
\* scores are the scores of the repositories searched, matching the places
\* of those whose score is not zero.
IsBestBatch(batch, members, batch_scores, repos, scores, matching) ==
    LET Split(taken, left) ==
            /\ Cardinality(taken) = Len(batch)
            /\ \A i \in taken, j \in left : scores[i] >= scores[j]
    IN  /\ Len(batch) = IF Cardinality(matching) < 100 THEN Cardinality(matching) ELSE 100
        /\ Split({i \in matching : repos[i] \in members},
                 {i \in matching : repos[i] \notin members})
        /\ \A k \in 1..(Len(batch) - 1) : batch_scores[k] >= batch_scores[k + 1]

\* What a search has done of the warm-up, over the repositories searched:
\* valid is what is_doc_cache_valid gave before the search
WarmedWhenNeeded(s, keywords, repos, scores, matching, valid) ==
    /\ s.indexing # <<>> <=>
           /\ s.args.warm_cache
           /\ valid = Return(Bool(FALSE))
           /\ matching # {}
    /\ Len(s.indexing) <= 1
    /\ Cardinality(PlacesOf(s, "index_repositories")) = Len(s.indexing)
    /\ s.indexing # <<>> =>
           /\ IsBestBatch(s.indexing[1].repositories, Range(s.indexing[1].repositories),
                          Tabulate(LAMBDA k : MetadataScores[s.indexing[1].repositories[k]][keywords],
                                   1, Len(s.indexing[1].repositories)),
                          repos, scores, matching)
           /\ \A i \in PlacesOf(s, "index_repositories"), j \in PlacesOf(s, "get_doc_index") :
                  i < j
    /\ matching = {} =>
           /\ PlacesOf(s, "is_doc_cache_valid") = {}
           /\ PlacesOf(s, "get_doc_index") = {}
           /\ s.results = Return(List(<<>>))

\* C21: during search() batch indexing is invoked if and only if warm_cache
\* is true, is_doc_cache_valid() is false and some repository has a
\* non-zero metadata score; it then runs once, on the at most 100 candidates
\* of the highest metadata scores, and has ended before any content is
\* scored; with an empty list of repositories or no matching candidate
\* there is neither a warm-up nor content scoring
C21_WarmupWhenNeededOnce ==
    [][Searches =>
        LET Over(keywords, repos) ==
                LET Scores(scores) ==
                        WarmedWhenNeeded(searched', keywords, repos, scores,
                                         \* a blank query has no candidates
                                         IF strip(searched'.args.query) = <<>> THEN {}
                                         ELSE {i \in 1..Len(repos) : scores[i] > 0},
                                         is_doc_cache_valid(_doc_cache, _doc_cache_time, now))
                IN  Scores(Tabulate(LAMBDA i : MetadataScores[repos[i]][keywords],
                                    1, Len(repos)))
        IN  Over(_extract_keywords(strip(searched'.args.query)),
                 IF _repo_cache' = NoneVal THEN <<>> ELSE _repo_cache'.items)]_vars

\* A search has warmed the cache up with 100 of more than 100 candidates and
\* has scored content then
C21_Witness ==
    /\ searched.op = "search_repositories"
    /\ searched.indexing # <<>>
    /\ Len(searched.indexing[1].repositories) = 100
    /\ Len(_repo_cache.items) > 100
    /\ PlacesOf(searched, "get_doc_index") # {}
    /\ searched.results.value.items # <<>>
    /\ searched.results.value.items[1].doc_types_found # <<>>

\* A search_repos recorded as s has passed warm_cache=true to the engine
SearchesWarm(s) ==
    /\ s.op = "search_repos"
    /\ s.engine # <<>>
    /\ s.engine[1].warm_cache

\* The last call was a search whose warm-up has stored an index: the cache
\* holds, for a repository of the batch, a file fetched at the time of the call
HasWarmedUp ==
    /\ SearchesWarm(searched)
    /\ searched.indexing # <<>>
    /\ \E repo \in Range(searched.indexing[1].repositories) :
           /\ repo.path \in DOMAIN _doc_cache
           /\ \E path \in DOMAIN _doc_cache[repo.path].files :
                  _doc_cache[repo.path].files[path].cached_at = searched.timestamp

\* The step is a search with warm_cache=true made within doc_ttl of the last
\* call
SearchesAgainWithinTtl ==
    /\ SearchesWarm(searched')
    /\ searched'.timestamp = now
    /\ now' = now
    /\ now - searched.timestamp < doc_ttl

\* C22: once a search has run a warm-up that stored a DocIndex, a later
\* search with warm_cache=true on the same engine and cache manager, made
\* within doc_ttl of that warm-up, runs no batch indexing and makes no
\* request for documentation
C22_WarmCacheIsNotWarmedAgain ==
    [][(HasWarmedUp /\ SearchesAgainWithinTtl) => searched'.indexing = <<>>]_vars

\* The later search makes no request for a repository whose index the cache
\* holds
C22_IndexedRepositoriesAreNotFetched ==
    [][(HasWarmedUp /\ SearchesAgainWithinTtl) =>
           \A b \in 1..Len(searched'.indexing) :
               \A i \in 1..Len(searched'.indexing[b].calls) :
                   searched'.indexing[b].calls[i].project_path \notin DOMAIN _doc_cache]_vars

\* The files whose content has added to the score of a repository that the
\* last search has returned: those of its cached index that hold a keyword
ScoredFiles(repository) ==
    IF repository.doc_types_found = <<>> THEN {}
    ELSE LET index == _doc_cache[repository.path_namespace]
             keywords == _extract_keywords(searched.engine[1].query)
         IN  {index.files[path] :
                 path \in {p \in DOMAIN index.files :
                              \E i \in 1..Len(keywords) :
                                  IsSubstr(keywords[i], Lower(index.files[p].content))}}

\* The last call was a search with warm_cache=true that has returned results
HasSearchedWarm ==
    /\ SearchesWarm(searched)
    /\ searched.outcome.value.success

\* C23: every cached DocFile from which a search with warm_cache=true has
\* added content score was fresh at the time of the search: its age, the
\* time of the search minus cached_at, was below doc_ttl
C23_ScoredFilesAreFresh ==
    HasSearchedWarm =>
        \A n \in 1..Len(searched.outcome.value.repositories) :
            \A doc_file_scored \in ScoredFiles(searched.outcome.value.repositories[n]) :
                searched.timestamp - doc_file_scored.cached_at < doc_ttl

\* The files scored were fetched before the search or during it
C23_ScoredFilesAreCached ==
    HasSearchedWarm =>
        \A n \in 1..Len(searched.outcome.value.repositories) :
            \A doc_file_scored \in ScoredFiles(searched.outcome.value.repositories[n]) :
                doc_file_scored.cached_at <= searched.timestamp

(***************************************************************************)
(* Properties of the batch indexing                                        *)
(***************************************************************************)
\* The last call of the indexer was index_repositories
HasIndexedBatch == indexed.op = "index_repositories"

\* index_repository has raised for the i-th repository of the batch
RaisedAt(i) ==
    RaisesOnEntry(indexed.args.repositories[i], tree[indexed.args.repositories[i].path],
                  indexed.network.listing)

\* C25: index_repositories attempts every repository of its list once and
\* in list order, whatever the others give; an exception of one is counted
\* as an error and the rest are attempted all the same; it returns, and it
\* calls the cache's save() once, after the last repository
C25_EveryRepositoryOnceThenSave ==
    HasIndexedBatch =>
        LET n == Len(indexed.args.repositories)
            stats == indexed.outcome.value
        IN  /\ indexed.outcome.kind = "return"
            /\ Len(indexed.steps) = n + 1
            /\ \A i \in 1..n :
                   indexed.steps[i] =
                       Step("index_repository", indexed.args.repositories[i].path)
            /\ indexed.steps[n + 1] = Step("save", <<>>)
            /\ stats.errors = Cardinality({i \in 1..n : RaisedAt(i)})
            /\ stats.errors + stats.processed = n
            /\ stats.indexed + stats.skipped = stats.processed

\* A batch in which repositories were indexed, skipped and in error, the
\* first error before the last of them
C25_Witness ==
    /\ HasIndexedBatch
    /\ Len(indexed.args.repositories) = MaxBatch
    /\ indexed.outcome.value.errors = 2
    /\ indexed.outcome.value.indexed > 0
    /\ indexed.outcome.value.skipped > 0
    /\ RaisedAt(10)
    /\ indexed.steps[MaxBatch + 1].op = "save"

\* The last call was index_repositories with a progress callback
HasReportedProgress == HasIndexedBatch /\ indexed.args.progress_callback

\* The calls (10, total), (20, total), ... of a callback for total
\* repositories
EveryTenth(total) == Tabulate(LAMBDA k : <<10 * k, total>>, 1, total \div 10)

\* C26: with a progress callback, index_repositories calls it once after
\* every 10th repository of the list, with (10k, total): floor(n/10) calls
\* for n repositories, whether or not repositories have failed to index
C26_CallbackAfterEveryTenth ==
    HasReportedProgress =>
        indexed.progress = EveryTenth(Len(indexed.args.repositories))

\* The callback is called after every 10th repository for which
\* index_repository has not raised, and after no other
C26_CallbackAfterEveryTenthReturned ==
    HasReportedProgress =>
        indexed.progress = SelectSeq(EveryTenth(Len(indexed.args.repositories)),
                                     LAMBDA reported : ~RaisedAt(reported[1]))

=============================================================================
